---- MODULE Spec2Model ----
(***************************************************************************)
(* Nexus compliance engine: the compliance toggle service (configuration   *)
(* store, audit trail, gate evaluator) and the assessment service (the     *)
(* assessment lifecycle, findings, score), over a relational store with    *)
(* row locks and transactions.                                             *)
(*                                                                         *)
(* Tables are sets (or sequences, in insertion order) of rows.  A          *)
(* transaction stages its writes in tx[p]; they reach the tables only      *)
(* when it commits, so the tables always show what a reader on another     *)
(* connection sees.  Any statement may fail with a storage error.          *)
(***************************************************************************)
EXTENDS Integers, Sequences, FiniteSets, TLC

\* ---------------------------------------------------------------- bounds
MaxCalls == 3
MaxAssessments == 2

Procs == {"p1", "p2"}
Tenants == {"t1", "t2"}
Users == [t1 |-> "u1", t2 |-> "u2"]

\* ------------------------------------------------- values and conversions
\* A nullable column or an optional argument: {} when absent, {v} when set.
Null == {}
Some(v) == {v}
The(s) == CHOOSE v \in s : TRUE

\* JavaScript values met by the toggle code.
JsBool(b) == [kind |-> "boolean", val |-> b]
JsUndefined == [kind |-> "undefined", val |-> FALSE]
JsFunction == [kind |-> "function", val |-> FALSE]

\* Properties every object inherits from Object.prototype (a sample).
ObjectPrototypeKeys == {"toString"}

\* `key in obj`: own or inherited property.
HasProperty(obj, key) == key \in DOMAIN obj \/ key \in ObjectPrototypeKeys

\* obj[key]
GetProperty(obj, key) ==
  IF key \in DOMAIN obj THEN JsBool(obj[key])
  ELSE IF key \in ObjectPrototypeKeys THEN JsFunction
  ELSE JsUndefined

\* obj[key] = v, as a new value of the object
SetProperty(obj, key, v) ==
  [k \in DOMAIN obj \cup {key} |-> IF k = key THEN v ELSE obj[k]]

\* JSON text of an object of booleans, as JSONB keeps it: a set of
\* key/value members; of a module map: a set of module/members pairs.
JSONStringifyObject(obj) == {<<k, obj[k]>> : k \in DOMAIN obj}
JSONParseObject(json) ==
  [k \in {m[1] : m \in json} |-> (CHOOSE m \in json : m[1] = k)[2]]
JSONStringify(map) == {<<m, JSONStringifyObject(map[m])>> : m \in DOMAIN map}
JSONParse(json) ==
  [m \in {e[1] : e \in json} |->
     JSONParseObject((CHOOSE e \in json : e[1] = m)[2])]

DEFAULT_MODULE_CONFIG ==
  [ gdpr |-> [enabled |-> TRUE, dataExport |-> TRUE, dataErasure |-> TRUE,
              consentManagement |-> TRUE, dataPortability |-> TRUE,
              rectification |-> TRUE, restrictProcessing |-> TRUE],
    aiAct |-> [enabled |-> TRUE, riskClassification |-> TRUE,
               humanOversight |-> TRUE, transparencyLogging |-> TRUE,
               technicalDocumentation |-> TRUE, friaAssessment |-> TRUE],
    nis2 |-> [enabled |-> TRUE, incidentReporting |-> TRUE,
              securityMonitoring |-> TRUE, supplyChainSecurity |-> TRUE,
              businessContinuity |-> TRUE],
    iso27001 |-> [enabled |-> TRUE, controlAssessment |-> TRUE,
                  auditTrail |-> TRUE, riskManagement |-> TRUE,
                  accessControl |-> TRUE],
    soc2 |-> [enabled |-> FALSE, securityControls |-> FALSE,
              availabilityControls |-> FALSE,
              confidentialityControls |-> FALSE],
    hipaa |-> [enabled |-> FALSE, phiProtection |-> FALSE,
               auditControls |-> FALSE, accessManagement |-> FALSE] ]

Modules == DOMAIN DEFAULT_MODULE_CONFIG

\* The requests the model issues: modules and feature names a toggle or a
\* gate check is called with (a defined feature of gdpr, which soc2 lacks,
\* and a name every object inherits).
ModuleInputs == {"gdpr", "soc2"}
FeatureInputs == {Null, Some("dataErasure"), Some("toString")}

\* ------------------------------------------------------------- the rows
\* compliance_config
ConfigRow(tenantId, masterEnabled, moduleConfigJson, updatedAt) ==
  [tenant_id |-> tenantId, master_enabled |-> masterEnabled,
   module_config |-> moduleConfigJson, updated_at |-> updatedAt]

\* A JSON snapshot in previous_state / new_state: the master flag and the
\* module map are each present or not; whole_row marks row_to_json output.
Snapshot(master, modules, wholeRow) ==
  [master |-> master, modules |-> modules, whole_row |-> wholeRow]
NullSnapshot == Snapshot(Null, Null, FALSE)

\* compliance_config_audit
AuditRow(tenantId, action, changedBy, previousState, newState, moduleAffected, featureAffected, previousValue, newValue) ==
  [tenant_id |-> tenantId, action |-> action, changed_by |-> changedBy,
   previous_state |-> previousState, new_state |-> newState,
   module_affected |-> moduleAffected, feature_affected |-> featureAffected,
   previous_value |-> previousValue, new_value |-> newValue]

\* ------------------------------------------------ toggle service: helpers
\* The config object the service builds from a row; JSON.parse creates one
\* fresh object per module.
mapRowToConfig(row) ==
  [tenantId |-> row.tenant_id, masterEnabled |-> row.master_enabled,
   moduleConfig |-> JSONParse(row.module_config), updatedAt |-> row.updated_at]

\* SELECT * FROM compliance_config WHERE tenant_id = $1
SelectConfig(table, tenantId) == {r \in table : r.tenant_id = tenantId}

\* A JavaScript condition `if (v)` / `!v`
Truthy(v) == v.kind = "function" \/ (v.kind = "boolean" /\ v.val)

\* A gate that forgets the master switch.
isEnabledOf_ignoresMaster(config, module, feature) ==
  LET moduleConfig == config.moduleConfig[module] IN
  IF ~Truthy(GetProperty(moduleConfig, "enabled")) THEN FALSE
  ELSE IF feature = Null THEN TRUE
  ELSE GetProperty(moduleConfig, The(feature)) = JsBool(TRUE)

\* The body of isEnabled after `const config = await this.getConfig(..)`.
isEnabledOf(config, module, feature) ==
  IF ~config.masterEnabled THEN FALSE
  ELSE LET moduleConfig == config.moduleConfig[module] IN
       IF ~Truthy(GetProperty(moduleConfig, "enabled")) THEN FALSE
       ELSE IF feature = Null THEN TRUE
       ELSE GetProperty(moduleConfig, The(feature)) = JsBool(TRUE)

\* A query parameter bound to a BOOLEAN column: undefined is sent as NULL,
\* a boolean as itself, anything else is no boolean (the statement fails).
IsBooleanParam(v) == v.kind \in {"boolean", "undefined"}
BooleanParam(v) == IF v.kind = "boolean" THEN Some(v.val) ELSE Null

\* INSERT INTO compliance_config_audit by the service: the row, and whether
\* the insert is accepted.
logConfigChange(data) ==
  [ok |-> IsBooleanParam(data.previousValue) /\ IsBooleanParam(data.newValue),
   row |-> AuditRow(data.tenantId, data.action, data.changedBy,
                    data.previousState, data.newState,
                    data.moduleAffected, data.featureAffected,
                    BooleanParam(data.previousValue),
                    BooleanParam(data.newValue))]

\* row_to_json(OLD) / row_to_json(NEW)
row_to_json(row) ==
  Snapshot(Some(row.master_enabled), Some(row.module_config), TRUE)

\* The AFTER UPDATE trigger on compliance_config: the audit rows it inserts
\* for one updated row; changedBy is app.current_user_id of the transaction.
log_compliance_toggle_change(OLDROW, NEWROW, changedBy) ==
  (IF OLDROW.master_enabled # NEWROW.master_enabled
   THEN << AuditRow(NEWROW.tenant_id, "TOGGLE_MASTER", changedBy,
                    row_to_json(OLDROW), row_to_json(NEWROW),
                    Some("master"), Some("enabled"),
                    Some(OLDROW.master_enabled), Some(NEWROW.master_enabled)) >>
   ELSE << >>)
  \o
  (IF OLDROW.module_config # NEWROW.module_config
   THEN << AuditRow(NEWROW.tenant_id, "TOGGLE_MODULE", changedBy,
                    Snapshot(Null, Some(OLDROW.module_config), FALSE),
                    Snapshot(Null, Some(NEWROW.module_config), FALSE),
                    Null, Null, Null, Null) >>
   ELSE << >>)

\* UPDATE compliance_config SET ... WHERE tenant_id = ..: the new row version
\* (updated_at is a logical clock) and the audit rows of the trigger.
UpdateConfig(OLDROW, NEWROW, changedBy) ==
  [row |-> NEWROW, audits |-> log_compliance_toggle_change(OLDROW, NEWROW, changedBy)]

\* What a transaction has staged: the config rows it read under the lock,
\* the config row version it wrote, the audit rows it inserted, the
\* assessment row version it wrote, the findings it inserted.
NoTx == [prev |-> {}, cfgWrite |-> {}, audits |-> << >>,
         asmtWrite |-> {}, findings |-> << >>]

\* { ...obj }: a new top-level object holding the same references.
SpreadCopy(refs) == [k \in DOMAIN refs |-> refs[k]]

\* The objects a map of references denotes in a heap.
Deref(refs, heap) == [k \in DOMAIN refs |-> heap[refs[k]]]

\* An UPDATE that also writes the default module map.
SetMasterEnabled_resetsModules(row, enabled) ==
  [row EXCEPT !.master_enabled = enabled,
              !.module_config = JSONStringify(DEFAULT_MODULE_CONFIG),
              !.updated_at = @ + 1]

\* UPDATE compliance_config SET master_enabled = $1, updated_at = NOW():
\* the new row version.
SetMasterEnabled(row, enabled) ==
  [row EXCEPT !.master_enabled = enabled, !.updated_at = @ + 1]

\* toggleMaster after its SELECT .. FOR UPDATE returned `rows`: the INSERT
\* or UPDATE and the audit insert.
toggleMasterWrite(rows, tenantId, userId, enabled) ==
  IF rows = {}
  THEN LET created == ConfigRow(tenantId, enabled,
                                JSONStringify(DEFAULT_MODULE_CONFIG), 0)
           logged == logConfigChange(
             [tenantId |-> tenantId, action |-> "CREATE", changedBy |-> userId,
              previousState |-> NullSnapshot,
              newState |-> Snapshot(Some(enabled),
                             Some(JSONStringify(DEFAULT_MODULE_CONFIG)), FALSE),
              moduleAffected |-> Some("master"),
              featureAffected |-> Some("enabled"),
              previousValue |-> JsUndefined, newValue |-> JsBool(enabled)])
       IN [ok |-> logged.ok, error |-> "StorageError",
           tx |-> [NoTx EXCEPT !.prev = rows, !.cfgWrite = {created},
                               !.audits = << logged.row >>]]
  ELSE LET row == The(rows)
           previousConfig == mapRowToConfig(row)
           updated == UpdateConfig(row, SetMasterEnabled(row, enabled), userId)
           logged == logConfigChange(
             [tenantId |-> tenantId, action |-> "TOGGLE_MASTER",
              changedBy |-> userId,
              previousState |->
                Snapshot(Some(previousConfig.masterEnabled), Null, FALSE),
              newState |-> Snapshot(Some(enabled), Null, FALSE),
              moduleAffected |-> Some("master"),
              featureAffected |-> Some("enabled"),
              previousValue |-> JsBool(previousConfig.masterEnabled),
              newValue |-> JsBool(enabled)])
       IN [ok |-> logged.ok, error |-> "StorageError",
           tx |-> [NoTx EXCEPT !.prev = rows, !.cfgWrite = {updated.row},
                               !.audits = updated.audits \o << logged.row >>]]

\* toggleModule after its SELECT .. FOR UPDATE returned the row: the
\* in-memory update, the UPDATE and the audit insert.  previousConfig's
\* module objects live in a heap, one per module, addressed by module name;
\* previousConfig.moduleConfig and newModuleConfig are maps of references.
toggleModuleWrite(rows, tenantId, userId, module, feature, enabled) ==
  LET row == The(rows)
      previousConfig == mapRowToConfig(row)
      heap0 == previousConfig.moduleConfig
      previousRefs == [m \in DOMAIN heap0 |-> m]
      newRefs == SpreadCopy(previousRefs)
      found == feature = Null \/ HasProperty(heap0[newRefs[module]], The(feature))
      key == IF feature = Null THEN "enabled" ELSE The(feature)
      \* newModuleConfig[module][key] = enabled
      heap1 == [heap0 EXCEPT ![newRefs[module]] = SetProperty(@, key, enabled)]
      newModuleConfig == Deref(newRefs, heap1)
      updated == UpdateConfig(row,
                   [row EXCEPT !.module_config = JSONStringify(newModuleConfig),
                               !.updated_at = @ + 1], userId)
      \* read after the assignment above, through previousConfig
      previousModuleConfig == Deref(previousRefs, heap1)
      previousValue == GetProperty(previousModuleConfig[module], key)
      logged == logConfigChange(
        [tenantId |-> tenantId,
         action |-> IF feature = Null THEN "TOGGLE_MODULE" ELSE "TOGGLE_FEATURE",
         changedBy |-> userId,
         previousState |->
           Snapshot(Null, Some(JSONStringify(previousModuleConfig)), FALSE),
         newState |-> Snapshot(Null, Some(JSONStringify(newModuleConfig)), FALSE),
         moduleAffected |-> Some(module),
         featureAffected |-> Some(key),
         previousValue |-> previousValue, newValue |-> JsBool(enabled)])
  IN IF ~found
     THEN [ok |-> FALSE, error |-> "InvalidFeature", tx |-> NoTx]
     ELSE [ok |-> logged.ok, error |-> "StorageError",
           tx |-> [NoTx EXCEPT !.prev = rows, !.cfgWrite = {updated.row},
                               !.audits = updated.audits \o << logged.row >>]]

\* A transaction whose audit inserts bypass it (they survive ROLLBACK).
transaction_keepsAudit(tables, t, commits) ==
  [config |-> IF commits
              THEN {r \in tables.config :
                      \A w \in t.cfgWrite : r.tenant_id # w.tenant_id}
                   \cup t.cfgWrite
              ELSE tables.config,
   audit |-> tables.audit \o t.audits,
   assessments |-> IF commits
                   THEN {a \in tables.assessments :
                           \A w \in t.asmtWrite : a.id # w.id}
                        \cup t.asmtWrite
                   ELSE tables.assessments,
   findings |-> IF commits THEN tables.findings \o t.findings
                ELSE tables.findings]

\* A transaction whose finding inserts bypass it (they survive ROLLBACK).
transaction_keepsFindings(tables, t, commits) ==
  [config |-> IF commits
              THEN {r \in tables.config :
                      \A w \in t.cfgWrite : r.tenant_id # w.tenant_id}
                   \cup t.cfgWrite
              ELSE tables.config,
   audit |-> IF commits THEN tables.audit \o t.audits ELSE tables.audit,
   assessments |-> IF commits
                   THEN {a \in tables.assessments :
                           \A w \in t.asmtWrite : a.id # w.id}
                        \cup t.asmtWrite
                   ELSE tables.assessments,
   findings |-> tables.findings \o t.findings]

\* A transaction whose COMMIT leaves only its own audit rows in the table.
transaction_replacesAudit(tables, t, commits) ==
  IF commits
  THEN [config |-> {r \in tables.config :
                      \A w \in t.cfgWrite : r.tenant_id # w.tenant_id}
                   \cup t.cfgWrite,
        audit |-> IF t.audits = << >> THEN tables.audit ELSE t.audits,
        assessments |-> {a \in tables.assessments :
                           \A w \in t.asmtWrite : a.id # w.id}
                        \cup t.asmtWrite,
        findings |-> tables.findings \o t.findings]
  ELSE tables

\* transaction(callback): COMMIT makes the staged writes visible, ROLLBACK
\* drops them.  tables = the committed tables.
transaction(tables, t, commits) ==
  IF commits
  THEN [config |-> {r \in tables.config :
                      \A w \in t.cfgWrite : r.tenant_id # w.tenant_id}
                   \cup t.cfgWrite,
        audit |-> tables.audit \o t.audits,
        assessments |-> {a \in tables.assessments :
                           \A w \in t.asmtWrite : a.id # w.id}
                        \cup t.asmtWrite,
        findings |-> tables.findings \o t.findings]
  ELSE tables

\* --------------------------------------------- assessment service: helpers
\* compliance_frameworks and compliance_controls (in catalog order): the
\* catalog the model runs against.
compliance_frameworks ==
  { [id |-> "iso27001", is_active |-> TRUE],
    [id |-> "gdpr", is_active |-> TRUE],
    [id |-> "retired", is_active |-> FALSE] }

compliance_controls ==
  << [id |-> "A.5.1", framework_id |-> "iso27001", domain |-> "Organizational",
      implementation_priority |-> 85],
     [id |-> "A.8.1", framework_id |-> "iso27001", domain |-> "Technological",
      implementation_priority |-> 85],
     [id |-> "A.5.37", framework_id |-> "iso27001", domain |-> "Organizational",
      implementation_priority |-> 75],
     [id |-> "GDPR-5", framework_id |-> "gdpr", domain |-> "Organizational",
      implementation_priority |-> 90] >>

\* The requests the model issues.
FrameworkInputs == {"iso27001", "retired", "unknown"}
ScopeInputs == { << >>, << "Organizational" >> }
ExcludedInputs == { << >>, << "A.5.37" >> }

AssessmentStatus ==
  {"pending", "in_progress", "completed", "failed", "cancelled"}

Elems(seq) == {seq[i] : i \in DOMAIN seq}

\* The row createAssessment inserts (column defaults included).
NewAssessment(id, tenantId, frameworkId, scope, excludedControls) ==
  [id |-> id, tenant_id |-> tenantId, framework_id |-> frameworkId,
   scope |-> scope, excluded_controls |-> excludedControls,
   status |-> "pending", overall_score |-> Null, risk_level |-> Null,
   total_controls_assessed |-> 0, compliant_controls |-> 0,
   non_compliant_controls |-> 0, partial_controls |-> 0,
   not_applicable_controls |-> 0, critical_findings |-> 0,
   major_findings |-> 0, minor_findings |-> 0, observations |-> 0,
   ai_model_used |-> Null, ai_confidence |-> Null,
   started_at |-> Null, completed_at |-> Null]

\* Thresholds that are exclusive.
calculateRiskLevel_exclusive(score) ==
  IF score > 90 THEN "low"
  ELSE IF score > 70 THEN "medium"
  ELSE IF score > 50 THEN "high"
  ELSE "critical"

calculateRiskLevel(score) ==
  IF score >= 90 THEN "low"
  ELSE IF score >= 70 THEN "medium"
  ELSE IF score >= 50 THEN "high"
  ELSE "critical"

\* A status check that only refuses a run in progress.
CanRun_unlessInProgress(status) == status # "in_progress"

\* The status check at the head of runAssessment.
CanRun(status) == status = "pending" \/ status = "failed"

\* A SELECT that takes no row lock.
ForUpdateBlocked_noLock(holder, p) == FALSE

\* SELECT .. FOR UPDATE by transaction p has to wait: another transaction
\* holds the row lock.
ForUpdateBlocked(holder, p) == holder # Null /\ holder # {p}

\* A loop that stops one control early.
LoopDone_offByOne(i, controls) == i >= Len(controls)

\* for (const control of controls): the loop is past the last control.
LoopDone(i, controls) == i > Len(controls)

\* A WHERE clause without the scope.
ControlsWhere_ignoresScope(assessment) ==
  { c \in Elems(compliance_controls) :
      /\ c.framework_id = assessment.framework_id
      /\ Len(assessment.excluded_controls) > 0 =>
           c.id \notin Elems(assessment.excluded_controls) }

\* The WHERE clause of the controls query.
ControlsWhere(assessment) ==
  { c \in Elems(compliance_controls) :
      /\ c.framework_id = assessment.framework_id
      /\ Len(assessment.scope) > 0 => c.domain \in Elems(assessment.scope)
      /\ Len(assessment.excluded_controls) > 0 =>
           c.id \notin Elems(assessment.excluded_controls) }

\* ORDER BY implementation_priority DESC: every order of the selected rows
\* the sort key allows (rows of equal priority come in any order).
ControlsQuery(assessment) ==
  LET S == ControlsWhere(assessment)
      n == Cardinality(S)
  IN { q \in [1..n -> S] :
         /\ \A i, j \in 1..n : i # j => q[i] # q[j]
         /\ \A i, j \in 1..n :
              i < j => q[i].implementation_priority >= q[j].implementation_priority }

\* Math.random(), in hundredths.
RandomInputs == {30, 70, 80, 95}

\* aiConfidence before the evaluation branch, in hundredths.
DefaultAiConfidence == 75

\* An evaluation that leaves aiConfidence at its default when no AI ran.
Evaluate_keepsDefaultConfidence(control, useAI, ai_enabled, random) ==
  IF useAI /\ ai_enabled
  THEN [status |-> "compliant", severity |-> Null,
        aiConfidence |-> DefaultAiConfidence]
  ELSE [status |-> "not_assessed", severity |-> Null,
        aiConfidence |-> DefaultAiConfidence]

\* One pass of the loop body up to the INSERT: the evaluation of a control.
Evaluate(control, useAI, ai_enabled, random) ==
  IF useAI /\ ai_enabled
  THEN IF random < 60
       THEN [status |-> "compliant", severity |-> Null,
             aiConfidence |-> DefaultAiConfidence]
       ELSE IF random < 75
       THEN [status |-> "partial", severity |-> Some("minor"),
             aiConfidence |-> DefaultAiConfidence]
       ELSE IF random < 90
       THEN [status |-> "non_compliant",
             severity |-> IF control.implementation_priority > 80
                          THEN Some("major") ELSE Some("minor"),
             aiConfidence |-> DefaultAiConfidence]
       ELSE [status |-> "not_applicable", severity |-> Null,
             aiConfidence |-> DefaultAiConfidence]
  ELSE [status |-> "not_assessed", severity |-> Null, aiConfidence |-> 0]

\* The row of INSERT INTO control_findings for one evaluated control (column
\* defaults included).  The fresh uuid of the finding is written as the pair
\* of its assessment and its control; updated_at is a logical clock.
FindingRow(assessmentId, control, tenantId, useAI, e) ==
  [id |-> << assessmentId, control.id >>,
   assessment_id |-> assessmentId, control_id |-> control.id,
   tenant_id |-> tenantId, status |-> e.status, severity |-> e.severity,
   ai_confidence |-> IF useAI THEN Some(e.aiConfidence) ELSE Null,
   remediation_required |-> e.status \in {"non_compliant", "partial"},
   remediation_status |-> IF e.status \in {"non_compliant", "partial"}
                          THEN "pending" ELSE "not_required",
   remediation_plan |-> Null,
   human_verified |-> FALSE, verified_by |-> Null, verified_at |-> Null,
   updated_at |-> 0]

\* The counters of runAssessment (its local variables).
NoCounters ==
  [compliant |-> 0, nonCompliant |-> 0, partial |-> 0, notApplicable |-> 0,
   critical |-> 0, major |-> 0, minor |-> 0, observations |-> 0]

\* Counters that miss the minor severity of a partial control.
Count_missesPartialMinor(k, e) ==
  [compliant |-> k.compliant + (IF e.status = "compliant" THEN 1 ELSE 0),
   nonCompliant |-> k.nonCompliant + (IF e.status = "non_compliant" THEN 1 ELSE 0),
   partial |-> k.partial + (IF e.status = "partial" THEN 1 ELSE 0),
   notApplicable |-> k.notApplicable + (IF e.status = "not_applicable" THEN 1 ELSE 0),
   critical |-> k.critical,
   major |-> k.major + (IF e.severity = Some("major") THEN 1 ELSE 0),
   minor |-> k.minor + (IF e.severity = Some("minor") /\ e.status # "partial"
                        THEN 1 ELSE 0),
   observations |-> k.observations]

\* The counters after one more evaluated control.
Count(k, e) ==
  [compliant |-> k.compliant + (IF e.status = "compliant" THEN 1 ELSE 0),
   nonCompliant |-> k.nonCompliant + (IF e.status = "non_compliant" THEN 1 ELSE 0),
   partial |-> k.partial + (IF e.status = "partial" THEN 1 ELSE 0),
   notApplicable |-> k.notApplicable + (IF e.status = "not_applicable" THEN 1 ELSE 0),
   critical |-> k.critical,
   major |-> k.major + (IF e.severity = Some("major") THEN 1 ELSE 0),
   minor |-> k.minor + (IF e.severity = Some("minor") THEN 1 ELSE 0),
   observations |-> k.observations]

\* ---- JavaScript numbers (IEEE 754 binary64), for the values >= 0 the score
\* goes through.  A natural number of any size is kept as its digits to
\* the base 2^LimbBits, lowest first (no leading zero digit, zero is the
\* empty sequence); a double [m, s] is m / 2^s with m of at most Precision
\* bits.
Precision == 53
LimbBits == 13
Limb == 2^LimbBits

RECURSIVE AddBig(_, _, _)
AddBig(a, b, carry) ==
  IF a = << >> /\ b = << >>
  THEN IF carry = 0 THEN << >> ELSE << carry >>
  ELSE LET x == (IF a = << >> THEN 0 ELSE a[1])
                + (IF b = << >> THEN 0 ELSE b[1]) + carry
       IN << x % Limb >> \o AddBig(IF a = << >> THEN a ELSE Tail(a),
                                   IF b = << >> THEN b ELSE Tail(b),
                                   x \div Limb)

\* a * n + carry, n and carry small
RECURSIVE TimesSmall(_, _, _)
TimesSmall(a, n, carry) ==
  IF a = << >>
  THEN IF carry = 0 THEN << >>
       ELSE << carry % Limb >> \o TimesSmall(a, n, carry \div Limb)
  ELSE LET x == a[1] * n + carry
       IN << x % Limb >> \o TimesSmall(Tail(a), n, x \div Limb)

RECURSIVE StripZeros(_)
StripZeros(b) ==
  IF b # << >> /\ b[Len(b)] = 0 THEN StripZeros(SubSeq(b, 1, Len(b) - 1))
  ELSE b

\* The number of bits of a digit, and of a number.
BitLenSmall(d) == Cardinality({k \in 0..LimbBits : 2^k <= d})
BitLen(m) ==
  IF m = << >> THEN 0 ELSE LimbBits * (Len(m) - 1) + BitLenSmall(m[Len(m)])

\* Bit i (from 0) of m.
Bit(m, i) ==
  IF i \div LimbBits + 1 > Len(m) THEN 0
  ELSE (m[i \div LimbBits + 1] \div 2^(i % LimbBits)) % 2

\* m * 2^d
ShiftLeft(m, d) ==
  IF m = << >> THEN m
  ELSE [i \in 1..(d \div LimbBits) |-> 0] \o TimesSmall(m, 2^(d % LimbBits), 0)

\* floor(m / 2^d)
ShiftRight(m, d) ==
  LET k == d \div LimbBits
      j == d % LimbBits
      a == IF k >= Len(m) THEN << >> ELSE SubSeq(m, k + 1, Len(m))
  IN StripZeros([i \in 1..Len(a) |->
                   (a[i] \div 2^j)
                   + (IF i < Len(a) THEN (a[i + 1] % 2^j) * 2^(LimbBits - j)
                      ELSE 0)])

\* The double nearest to m / 2^s, ties to the even mantissa.
RoundToDouble(m, s) ==
  LET drop == BitLen(m) - Precision IN
  IF drop <= 0 THEN [m |-> m, s |-> s]
  ELSE LET kept == ShiftRight(m, drop)
           guard == Bit(m, drop - 1)
           sticky == \E i \in 0..(drop - 2) : Bit(m, i) = 1
           up == guard = 1 /\ (sticky \/ Bit(m, drop) = 1)
       IN [m |-> IF up THEN AddBig(kept, << >>, 1) ELSE kept,
           s |-> s - drop]

\* The next k digits of r / t (0 <= r < t) after the point, lowest first,
\* with the remainder that is left below them.
RECURSIVE LongDivision(_, _, _)
LongDivision(r, t, k) ==
  IF k = 0 THEN [q |-> << >>, r |-> r]
  ELSE LET rest == LongDivision((r * Limb) % t, t, k - 1)
       IN [q |-> Append(rest.q, (r * Limb) \div t), r |-> rest.r]

\* c / t in doubles (c <= t): the quotient to 5 digits after the point and
\* one more bit that tells whether a remainder is left, rounded.
DoubleDivide(c, t) ==
  IF c = 0 THEN [m |-> << >>, s |-> 0]
  ELSE LET d == LongDivision(c % t, t, 5)
           Q == StripZeros(d.q \o (IF c \div t = 0 THEN << >>
                                   ELSE << c \div t >>))
       IN RoundToDouble(TimesSmall(Q, 2, IF d.r # 0 THEN 1 ELSE 0),
                        5 * LimbBits + 1)

\* x * n in doubles, n a small natural number
DoubleTimes(x, n) == RoundToDouble(TimesSmall(x.m, n, 0), x.s)

\* x + y in doubles
DoublePlus(x, y) ==
  LET S == IF x.s > y.s THEN x.s ELSE y.s
  IN RoundToDouble(AddBig(ShiftLeft(x.m, S - x.s), ShiftLeft(y.m, S - y.s), 0),
                   S)

\* Math.round(x) for a double x >= 0: the nearest integer, halves up.
MathRound(x) ==
  LET int == ShiftRight(x.m, x.s)
  IN (IF int = << >> THEN 0 ELSE int[1])
     + (IF x.s >= 1 THEN Bit(x.m, x.s - 1) ELSE 0)

\* A score that takes the non-compliant count for the compliant one.
OverallScore_countsNonCompliant(compliant, nonCompliant, partial) ==
  LET totalAssessed == compliant + nonCompliant + partial IN
  IF totalAssessed > 0
  THEN MathRound(DoublePlus(
         DoubleTimes(DoubleDivide(nonCompliant, totalAssessed), 100),
         DoubleTimes(DoubleDivide(partial, totalAssessed), 50)))
  ELSE 0

\* overallScore
OverallScore(compliant, nonCompliant, partial) ==
  LET totalAssessed == compliant + nonCompliant + partial IN
  IF totalAssessed > 0
  THEN MathRound(DoublePlus(
         DoubleTimes(DoubleDivide(compliant, totalAssessed), 100),
         DoubleTimes(DoubleDivide(partial, totalAssessed), 50)))
  ELSE 0

\* The final UPDATE of runAssessment: the completed row.
CompletedAssessment(row, controls, k, useAI) ==
  LET overallScore == OverallScore(k.compliant, k.nonCompliant, k.partial) IN
  [row EXCEPT !.status = "completed", !.completed_at = Some("NOW"),
     !.overall_score = Some(overallScore),
     !.risk_level = Some(calculateRiskLevel(overallScore)),
     !.total_controls_assessed = Len(controls),
     !.compliant_controls = k.compliant,
     !.non_compliant_controls = k.nonCompliant,
     !.partial_controls = k.partial,
     !.not_applicable_controls = k.notApplicable,
     !.critical_findings = k.critical, !.major_findings = k.major,
     !.minor_findings = k.minor, !.observations = k.observations,
     !.ai_model_used = IF useAI THEN Some("config.ai.model") ELSE Null,
     !.ai_confidence = IF useAI THEN Some(DefaultAiConfidence) ELSE Null]

\* ------------------------------------------------------------- the state
VARIABLES
  config,            \* table compliance_config (committed rows)
  audit,             \* table compliance_config_audit, in insertion order
  cfgLock,           \* tenant -> the transaction holding its config row lock
  assessments,       \* table compliance_assessments (committed rows)
  findings,          \* table control_findings, in insertion order
  asmtLock,          \* assessment id -> the transaction holding its row lock
  aiEnabled,         \* config.ai.enabled of the running process
  pc,                \* request -> where its handler stands
  call,              \* request -> the call it serves (or served last)
  tx,                \* request -> what its open transaction has staged
  local,             \* request -> the local variables of its runAssessment
  result,            \* request -> what its last call returned or threw
  started,           \* calls issued so far
  committedToggles   \* history: tenant -> toggle calls that have committed

vars == << config, audit, cfgLock, assessments, findings, asmtLock, aiEnabled,
           pc, call, tx, local, result, started, committedToggles >>

AssessmentIds == 1..MaxAssessments

NoCall == [op |-> "none", tenantId |-> "t1", module |-> "gdpr",
           feature |-> Null, enabled |-> FALSE, assessmentId |-> 0,
           useAI |-> FALSE, options |-> << >>, findingId |-> << >>,
           updates |-> << >>, reason |-> Null, frameworkId |-> "",
           scope |-> << >>, excludedControls |-> << >>]

NoLocal == [assessment |-> Null, controls |-> << >>, i |-> 1, k |-> NoCounters,
            total |-> 0]

\* What a call gave back: a config, a gate answer, an assessment or a page of
\* rows (the rows without their order, and the total), or the error it threw
\* and the statement it was thrown at.
NoResult == [status |-> "none", error |-> "", at |-> "", config |-> Null,
             enabled |-> Null, assessment |-> Null, data |-> {}, total |-> 0]
Returned(configOpt, enabledOpt, assessmentOpt) ==
  [status |-> "ok", error |-> "", at |-> "", config |-> configOpt,
   enabled |-> enabledOpt, assessment |-> assessmentOpt, data |-> {},
   total |-> 0]
ReturnedPage(rows, total) ==
  [status |-> "ok", error |-> "", at |-> "", config |-> Null,
   enabled |-> Null, assessment |-> Null, data |-> rows, total |-> total]
Thrown(error, at) ==
  [status |-> "error", error |-> error, at |-> at, config |-> Null,
   enabled |-> Null, assessment |-> Null, data |-> {}, total |-> 0]

Boot(ai) ==
  /\ config = {}
  /\ audit = << >>
  /\ cfgLock = [t \in Tenants |-> Null]
  /\ assessments = {}
  /\ findings = << >>
  /\ asmtLock = [a \in AssessmentIds |-> Null]
  /\ aiEnabled = ai
  /\ pc = [p \in Procs |-> "idle"]
  /\ call = [p \in Procs |-> NoCall]
  /\ tx = [p \in Procs |-> NoTx]
  /\ local = [p \in Procs |-> NoLocal]
  /\ result = [p \in Procs |-> NoResult]
  /\ started = 0
  /\ committedToggles = [t \in Tenants |-> 0]

Init == Boot(FALSE)
InitRun == \E ai \in BOOLEAN : Boot(ai)

cfgTables == << config, audit, cfgLock, committedToggles >>
asmtTables == << assessments, findings, asmtLock >>

\* A request arrives and its handler starts (BEGIN, for a transaction).
Begin(p, c, at) ==
  /\ pc[p] = "idle"
  /\ started < MaxCalls
  /\ started' = started + 1
  /\ call' = [call EXCEPT ![p] = c]
  /\ pc' = [pc EXCEPT ![p] = at]
  /\ tx' = [tx EXCEPT ![p] = NoTx]
  /\ local' = [local EXCEPT ![p] = NoLocal]
  /\ result' = [result EXCEPT ![p] = NoResult]
  /\ UNCHANGED aiEnabled

\* The end of a handler that ran in transaction(): COMMIT (commits = TRUE)
\* or ROLLBACK and rethrow; the row locks go with the transaction.
Finish(p, commits, res) ==
  LET after == transaction([config |-> config, audit |-> audit,
                            assessments |-> assessments,
                            findings |-> findings], tx[p], commits) IN
  /\ config' = after.config
  /\ audit' = after.audit
  /\ assessments' = after.assessments
  /\ findings' = after.findings
  /\ cfgLock' = [t \in Tenants |-> cfgLock[t] \ {p}]
  /\ asmtLock' = [a \in AssessmentIds |-> asmtLock[a] \ {p}]
  /\ tx' = [tx EXCEPT ![p] = NoTx]
  /\ local' = [local EXCEPT ![p] = NoLocal]
  /\ pc' = [pc EXCEPT ![p] = "idle"]
  /\ result' = [result EXCEPT ![p] = res]
  /\ UNCHANGED << call, started, aiEnabled >>

\* ---------------------------------------------------------- toggle service
\* Another transaction has inserted a config row for the tenant and not yet
\* committed: an INSERT of the same tenant_id waits for it.
InsertPending(p, tenantId) ==
  \E q \in Procs \ {p} :
    /\ tx[q].prev = {}
    /\ \E w \in tx[q].cfgWrite : w.tenant_id = tenantId

\* What getConfig / isEnabled return for the row they end up with.
Answer(c, row) ==
  IF c.op = "isEnabled"
  THEN Returned(Null,
                Some(isEnabledOf(mapRowToConfig(row), c.module, c.feature)),
                Null)
  ELSE Returned(Some(mapRowToConfig(row)), Null, Null)

\* getConfig is called.
getConfig(p, tenantId) ==
  /\ Begin(p, [NoCall EXCEPT !.op = "getConfig", !.tenantId = tenantId],
           "getConfig_select")
  /\ UNCHANGED << cfgTables, asmtTables >>

\* isEnabled is called: it calls getConfig.
isEnabled(p, tenantId, module, feature) ==
  /\ Begin(p, [NoCall EXCEPT !.op = "isEnabled", !.tenantId = tenantId,
                             !.module = module, !.feature = feature],
           "getConfig_select")
  /\ UNCHANGED << cfgTables, asmtTables >>

\* getConfig's SELECT, for getConfig itself and for isEnabled.
getConfig_select(p) ==
  /\ pc[p] = "getConfig_select"
  /\ LET rows == SelectConfig(config, call[p].tenantId) IN
       IF rows = {}
       THEN /\ pc' = [pc EXCEPT ![p] = "createDefaultConfig"]
            /\ result' = result
       ELSE /\ pc' = [pc EXCEPT ![p] = "idle"]
            /\ result' = [result EXCEPT ![p] = Answer(call[p], The(rows))]
  /\ UNCHANGED << cfgTables, asmtTables, aiEnabled, call, tx, local, started >>

\* createDefaultConfig: the INSERT, outside any transaction.
createDefaultConfig(p) ==
  /\ pc[p] = "createDefaultConfig"
  /\ ~InsertPending(p, call[p].tenantId)
  /\ pc' = [pc EXCEPT ![p] = "idle"]
  /\ LET created == ConfigRow(call[p].tenantId, TRUE,
                              JSONStringify(DEFAULT_MODULE_CONFIG), 0) IN
       IF SelectConfig(config, call[p].tenantId) # {}
       THEN \* uq_compliance_config_tenant
            /\ config' = config
            /\ result' = [result EXCEPT ![p] = Thrown("UniqueViolation", pc[p])]
       ELSE /\ config' = config \cup {created}
            /\ result' = [result EXCEPT ![p] = Answer(call[p], created)]
  /\ UNCHANGED << audit, cfgLock, committedToggles, asmtTables, aiEnabled,
                  call, tx, local, started >>

\* toggleMaster is called: BEGIN and the two SET LOCAL.
toggleMaster(p, tenantId, enabled) ==
  /\ Begin(p, [NoCall EXCEPT !.op = "toggleMaster", !.tenantId = tenantId,
                             !.enabled = enabled], "toggleMaster_select")
  /\ UNCHANGED << cfgTables, asmtTables >>

\* toggleModule is called: BEGIN and the two SET LOCAL.
toggleModule(p, tenantId, module, feature, enabled) ==
  /\ Begin(p, [NoCall EXCEPT !.op = "toggleModule", !.tenantId = tenantId,
                             !.module = module, !.feature = feature,
                             !.enabled = enabled], "toggleModule_select")
  /\ UNCHANGED << cfgTables, asmtTables >>

\* SELECT * FROM compliance_config WHERE tenant_id = $1 FOR UPDATE: waits
\* while another transaction holds the row, then locks and reads it.
toggleMaster_select(p) ==
  /\ pc[p] = "toggleMaster_select"
  /\ LET rows == SelectConfig(config, call[p].tenantId) IN
       /\ rows # {} => ~ForUpdateBlocked(cfgLock[call[p].tenantId], p)
       /\ cfgLock' = IF rows = {} THEN cfgLock
                     ELSE [cfgLock EXCEPT ![call[p].tenantId] = {p}]
       /\ tx' = [tx EXCEPT ![p] = [NoTx EXCEPT !.prev = rows]]
  /\ pc' = [pc EXCEPT ![p] = "toggleMaster_write"]
  /\ UNCHANGED << config, audit, committedToggles, asmtTables, aiEnabled,
                  call, local, result, started >>

\* The INSERT or UPDATE and the audit insert of toggleMaster.
toggleMaster_write(p) ==
  /\ pc[p] = "toggleMaster_write"
  /\ tx[p].prev = {} => ~InsertPending(p, call[p].tenantId)
  /\ LET w == toggleMasterWrite(tx[p].prev, call[p].tenantId,
                                Users[call[p].tenantId], call[p].enabled) IN
       IF tx[p].prev = {} /\ SelectConfig(config, call[p].tenantId) # {}
       THEN \* uq_compliance_config_tenant
            /\ Finish(p, FALSE, Thrown("UniqueViolation", pc[p]))
            /\ UNCHANGED committedToggles
       ELSE IF ~w.ok
       THEN /\ Finish(p, FALSE, Thrown(w.error, pc[p]))
            /\ UNCHANGED committedToggles
       ELSE /\ tx' = [tx EXCEPT ![p] = w.tx]
            /\ pc' = [pc EXCEPT ![p] = "commit"]
            /\ UNCHANGED << cfgTables, asmtTables, aiEnabled, call, local,
                            result, started >>

\* A toggleModule that creates the default config when there is none.
toggleModule_select_createsConfig(p) ==
  /\ pc[p] = "toggleModule_select"
  /\ SelectConfig(config, call[p].tenantId) = {}
  /\ tx' = [tx EXCEPT ![p] =
              [NoTx EXCEPT !.cfgWrite =
                 {ConfigRow(call[p].tenantId, TRUE,
                            JSONStringify(DEFAULT_MODULE_CONFIG), 0)}]]
  /\ pc' = [pc EXCEPT ![p] = "commit"]
  /\ UNCHANGED << cfgTables, asmtTables, aiEnabled, call, local, result,
                  started >>

\* toggleModule's SELECT .. FOR UPDATE; no row: the call throws.
toggleModule_select(p) ==
  /\ pc[p] = "toggleModule_select"
  /\ LET rows == SelectConfig(config, call[p].tenantId) IN
       IF rows = {}
       THEN /\ Finish(p, FALSE, Thrown("NotFound", pc[p]))
            /\ UNCHANGED committedToggles
       ELSE /\ ~ForUpdateBlocked(cfgLock[call[p].tenantId], p)
            /\ cfgLock' = [cfgLock EXCEPT ![call[p].tenantId] = {p}]
            /\ tx' = [tx EXCEPT ![p] = [NoTx EXCEPT !.prev = rows]]
            /\ pc' = [pc EXCEPT ![p] = "toggleModule_write"]
            /\ UNCHANGED << config, audit, committedToggles, asmtTables,
                            aiEnabled, call, local, result, started >>

\* The flag update, the UPDATE and the audit insert of toggleModule.
toggleModule_write(p) ==
  /\ pc[p] = "toggleModule_write"
  /\ LET w == toggleModuleWrite(tx[p].prev, call[p].tenantId,
                                Users[call[p].tenantId], call[p].module,
                                call[p].feature, call[p].enabled) IN
       IF ~w.ok
       THEN /\ Finish(p, FALSE, Thrown(w.error, pc[p]))
            /\ UNCHANGED committedToggles
       ELSE /\ tx' = [tx EXCEPT ![p] = w.tx]
            /\ pc' = [pc EXCEPT ![p] = "commit"]
            /\ UNCHANGED << cfgTables, asmtTables, aiEnabled, call, local,
                            result, started >>

\* COMMIT of a toggle: the call returns the config it wrote.
commitToggle(p) ==
  /\ pc[p] = "commit"
  /\ Finish(p, TRUE,
            Returned(Some(mapRowToConfig(The(tx[p].cfgWrite))), Null, Null))
  /\ committedToggles' =
       [committedToggles EXCEPT ![call[p].tenantId] = @ + 1]

\* A statement of an open toggle transaction (SET LOCAL, SELECT, INSERT,
\* UPDATE, COMMIT) fails: ROLLBACK, and the error is rethrown.
toggleStorageError(p) ==
  /\ pc[p] \in {"toggleMaster_select", "toggleMaster_write",
                "toggleModule_select", "toggleModule_write", "commit"}
  /\ Finish(p, FALSE, Thrown("StorageError", pc[p]))
  /\ UNCHANGED committedToggles

ConfigNext ==
  \E p \in Procs :
    \/ \E t \in Tenants : getConfig(p, t)
    \/ \E t \in Tenants, m \in ModuleInputs, f \in FeatureInputs :
         isEnabled(p, t, m, f)
    \/ getConfig_select(p)
    \/ createDefaultConfig(p)
    \/ \E t \in Tenants, e \in BOOLEAN : toggleMaster(p, t, e)
    \/ \E t \in Tenants, m \in ModuleInputs, f \in FeatureInputs, e \in BOOLEAN :
         toggleModule(p, t, m, f, e)
    \/ toggleMaster_select(p)
    \/ toggleMaster_write(p)
    \/ toggleModule_select(p)
    \/ toggleModule_write(p)
    \/ commitToggle(p)
    \/ toggleStorageError(p)

\* ------------------------------------------------------ assessment service
\* SELECT * FROM compliance_assessments WHERE id = $1 AND tenant_id = $2
SelectAssessment(table, assessmentId, tenantId) ==
  {a \in table : a.id = assessmentId /\ a.tenant_id = tenantId}

\* A framework query that does not look at is_active.
FrameworkQuery_ignoresActive(frameworkId) ==
  {f \in compliance_frameworks : f.id = frameworkId}

\* SELECT id FROM compliance_frameworks WHERE id = $1 AND is_active = true
FrameworkQuery(frameworkId) ==
  {f \in compliance_frameworks : f.id = frameworkId /\ f.is_active}

\* createAssessment: the framework check and the INSERT.
createAssessment(p, tenantId, frameworkId, scope, excludedControls) ==
  /\ pc[p] = "idle"
  /\ started < MaxCalls
  /\ Cardinality(assessments) < MaxAssessments
  /\ started' = started + 1
  /\ call' = [call EXCEPT ![p] = [NoCall EXCEPT !.op = "createAssessment",
                                                !.tenantId = tenantId,
                                                !.frameworkId = frameworkId,
                                                !.scope = scope,
                                                !.excludedControls = excludedControls]]
  /\ LET frameworkResult == FrameworkQuery(frameworkId)
         created == NewAssessment(Cardinality(assessments) + 1, tenantId,
                                  frameworkId, scope, excludedControls)
     IN IF frameworkResult = {}
        THEN /\ assessments' = assessments
             /\ result' = [result EXCEPT ![p] = Thrown("NotFound", "createAssessment")]
        ELSE /\ assessments' = assessments \cup {created}
             /\ result' = [result EXCEPT ![p] = Returned(Null, Null, Some(created))]
  /\ UNCHANGED << cfgTables, findings, asmtLock, aiEnabled, pc, tx, local >>

\* runAssessment is called: BEGIN.
runAssessment(p, tenantId, assessmentId, useAI) ==
  /\ Begin(p, [NoCall EXCEPT !.op = "runAssessment", !.tenantId = tenantId,
                             !.assessmentId = assessmentId, !.useAI = useAI],
           "run_select")
  /\ UNCHANGED << cfgTables, asmtTables >>

\* SELECT .. FOR UPDATE of the assessment finds the row locked by another
\* transaction: the statement waits.
run_wait(p) ==
  /\ pc[p] = "run_select"
  /\ SelectAssessment(assessments, call[p].assessmentId, call[p].tenantId) # {}
  /\ ForUpdateBlocked(asmtLock[call[p].assessmentId], p)
  /\ pc' = [pc EXCEPT ![p] = "run_wait"]
  /\ UNCHANGED << cfgTables, asmtTables, aiEnabled, call, tx, local, result,
                  started >>

\* SELECT .. FOR UPDATE of the assessment (at once, or when the lock it
\* waited for is released), the status check, and the UPDATE to in_progress.
run_select(p) ==
  /\ pc[p] \in {"run_select", "run_wait"}
  /\ LET rows == SelectAssessment(assessments, call[p].assessmentId,
                                  call[p].tenantId) IN
       IF rows = {}
       THEN /\ Finish(p, FALSE, Thrown("NotFound", pc[p]))
            /\ UNCHANGED committedToggles
       ELSE /\ ~ForUpdateBlocked(asmtLock[call[p].assessmentId], p)
            /\ IF ~CanRun(The(rows).status)
               THEN /\ Finish(p, FALSE, Thrown("InvalidState", pc[p]))
                    /\ UNCHANGED committedToggles
               ELSE /\ asmtLock' = [asmtLock EXCEPT
                                      ![call[p].assessmentId] = @ \cup {p}]
                    /\ local' = [local EXCEPT ![p] =
                                   [NoLocal EXCEPT !.assessment = rows]]
                    /\ tx' = [tx EXCEPT ![p] =
                                [NoTx EXCEPT !.asmtWrite =
                                   {[The(rows) EXCEPT
                                       !.status = "in_progress",
                                       !.started_at = Some("NOW")]}]]
                    /\ pc' = [pc EXCEPT ![p] = "run_controls"]
                    /\ UNCHANGED << cfgTables, assessments, findings,
                                    aiEnabled, call, result, started >>

\* The controls query.
run_controls(p) ==
  /\ pc[p] = "run_controls"
  /\ \E controls \in ControlsQuery(The(local[p].assessment)) :
       local' = [local EXCEPT ![p].controls = controls]
  /\ pc' = [pc EXCEPT ![p] = "run_loop"]
  /\ UNCHANGED << cfgTables, asmtTables, aiEnabled, call, tx, result, started >>

\* One pass of the loop: evaluate the control and insert its finding.
run_finding(p, random) ==
  /\ pc[p] = "run_loop"
  /\ ~LoopDone(local[p].i, local[p].controls)
  /\ LET control == local[p].controls[local[p].i]
         e == Evaluate(control, call[p].useAI, aiEnabled, random)
     IN /\ tx' = [tx EXCEPT ![p].findings =
                    Append(@, FindingRow(call[p].assessmentId, control,
                                         call[p].tenantId, call[p].useAI, e))]
        /\ local' = [local EXCEPT ![p].i = @ + 1,
                                  ![p].k = Count(@, e)]
  /\ UNCHANGED << cfgTables, asmtTables, aiEnabled, pc, call, result, started >>

\* After the loop: the score, the risk level and the final UPDATE.
run_complete(p) ==
  /\ pc[p] = "run_loop"
  /\ LoopDone(local[p].i, local[p].controls)
  /\ tx' = [tx EXCEPT ![p].asmtWrite =
              {CompletedAssessment(The(@), local[p].controls, local[p].k,
                                   call[p].useAI)}]
  /\ pc' = [pc EXCEPT ![p] = "run_commit"]
  /\ UNCHANGED << cfgTables, asmtTables, aiEnabled, call, local, result,
                  started >>

\* COMMIT of a run: the call returns the completed assessment.
commitRun(p) ==
  /\ pc[p] = "run_commit"
  /\ Finish(p, TRUE, Returned(Null, Null, tx[p].asmtWrite))
  /\ UNCHANGED committedToggles

\* A statement of an open run transaction fails: ROLLBACK, and the error
\* is rethrown.
runStorageError(p) ==
  /\ pc[p] \in {"run_select", "run_wait", "run_controls", "run_loop",
                "run_commit"}
  /\ Finish(p, FALSE, Thrown("StorageError", pc[p]))
  /\ UNCHANGED committedToggles

RunNext ==
  \E p \in Procs :
    \/ \E t \in Tenants, f \in FrameworkInputs, s \in ScopeInputs,
          x \in ExcludedInputs : createAssessment(p, t, f, s, x)
    \/ \E t \in Tenants, a \in AssessmentIds, u \in BOOLEAN :
         runAssessment(p, t, a, u)
    \/ run_wait(p)
    \/ run_select(p)
    \/ run_controls(p)
    \/ \E r \in RandomInputs : run_finding(p, r)
    \/ run_complete(p)
    \/ commitRun(p)
    \/ runStorageError(p)

Next == ConfigNext

\* The toggle service alone, and the assessment service alone.
Spec == Init /\ [][Next]_vars
SpecRun == InitRun /\ [][RunNext]_vars

\* ------------------------------------------------- the end of a long run
\* The aggregation at the end of runAssessment, over runs of up to MaxCount
\* controls with every mix of outcomes.
MaxCount == 12

\* The first rows of the ISO 27001 seed, as the controls query returns them
\* (ORDER BY implementation_priority DESC).
SeedControls ==
  << [id |-> "ISO27001-A.5.1", framework_id |-> "iso27001",
      domain |-> "Organizational", implementation_priority |-> 90],
     [id |-> "ISO27001-A.5.2", framework_id |-> "iso27001",
      domain |-> "Organizational", implementation_priority |-> 88],
     [id |-> "ISO27001-A.5.9", framework_id |-> "iso27001",
      domain |-> "Organizational", implementation_priority |-> 88],
     [id |-> "ISO27001-A.5.4", framework_id |-> "iso27001",
      domain |-> "Organizational", implementation_priority |-> 87],
     [id |-> "ISO27001-A.5.12", framework_id |-> "iso27001",
      domain |-> "Organizational", implementation_priority |-> 86],
     [id |-> "ISO27001-A.5.3", framework_id |-> "iso27001",
      domain |-> "Organizational", implementation_priority |-> 85],
     [id |-> "ISO27001-A.5.10", framework_id |-> "iso27001",
      domain |-> "Organizational", implementation_priority |-> 85],
     [id |-> "ISO27001-A.5.14", framework_id |-> "iso27001",
      domain |-> "Organizational", implementation_priority |-> 84],
     [id |-> "ISO27001-A.5.7", framework_id |-> "iso27001",
      domain |-> "Organizational", implementation_priority |-> 82],
     [id |-> "ISO27001-A.5.11", framework_id |-> "iso27001",
      domain |-> "Organizational", implementation_priority |-> 72],
     [id |-> "ISO27001-A.5.8", framework_id |-> "iso27001",
      domain |-> "Organizational", implementation_priority |-> 70],
     [id |-> "ISO27001-A.5.13", framework_id |-> "iso27001",
      domain |-> "Organizational", implementation_priority |-> 70],
     [id |-> "ISO27001-A.5.5", framework_id |-> "iso27001",
      domain |-> "Organizational", implementation_priority |-> 60],
     [id |-> "ISO27001-A.5.6", framework_id |-> "iso27001",
      domain |-> "Organizational", implementation_priority |-> 40] >>

\* The values of Math.random() in a run whose first c controls come out
\* compliant, the next n non-compliant, the next p partial and the last na
\* not applicable.
Draws(c, n, p, na) ==
  [i \in 1..(c + n + p + na) |->
     IF i <= c THEN 30 ELSE IF i <= c + n THEN 80
     ELSE IF i <= c + n + p THEN 70 ELSE 95]

\* The findings inserted and the counters after the first j passes of the
\* loop of runAssessment (with the AI assessor) over the controls.
RECURSIVE LoopAfter(_, _, _, _, _)
LoopAfter(assessmentId, tenantId, controls, draws, j) ==
  IF j = 0 THEN [findings |-> << >>, k |-> NoCounters]
  ELSE LET before == LoopAfter(assessmentId, tenantId, controls, draws, j - 1)
           e == Evaluate(controls[j], TRUE, TRUE, draws[j])
       IN [findings |-> Append(before.findings,
                               FindingRow(assessmentId, controls[j], tenantId,
                                          TRUE, e)),
           k |-> Count(before.k, e)]

\* Request p1 has run the loop of runAssessment over the first controls of
\* the seed (the others are excluded) and stands at its end.
InitScore ==
  \E c \in 0..MaxCount, n \in 0..MaxCount, p \in 0..MaxCount, na \in 0..MaxCount :
    /\ c + n + p + na <= MaxCount
    /\ LET total == c + n + p + na
           controls == SubSeq(SeedControls, 1, total)
           excluded == [i \in 1..(Len(SeedControls) - total) |->
                          SeedControls[total + i].id]
           row == NewAssessment(1, "t1", "iso27001", << >>, excluded)
           loop == LoopAfter(1, "t1", controls, Draws(c, n, p, na), total)
       IN /\ config = {}
          /\ audit = << >>
          /\ cfgLock = [t \in Tenants |-> Null]
          /\ assessments = {row}
          /\ findings = << >>
          /\ asmtLock = [a \in AssessmentIds |-> IF a = 1 THEN {"p1"} ELSE Null]
          /\ aiEnabled = TRUE
          /\ pc = [q \in Procs |-> IF q = "p1" THEN "run_loop" ELSE "idle"]
          /\ call = [q \in Procs |->
                       IF q = "p1"
                       THEN [NoCall EXCEPT !.op = "runAssessment",
                                           !.assessmentId = 1, !.useAI = TRUE]
                       ELSE NoCall]
          /\ tx = [q \in Procs |->
                     IF q = "p1"
                     THEN [NoTx EXCEPT
                             !.asmtWrite = {[row EXCEPT
                                               !.status = "in_progress",
                                               !.started_at = Some("NOW")]},
                             !.findings = loop.findings]
                     ELSE NoTx]
          /\ local = [q \in Procs |->
                        IF q = "p1"
                        THEN [assessment |-> {row}, controls |-> controls,
                              i |-> total + 1, k |-> loop.k]
                        ELSE NoLocal]
          /\ result = [q \in Procs |-> NoResult]
          /\ started = 2
          /\ committedToggles = [t \in Tenants |-> 0]

ScoreNext ==
  \E p \in Procs :
    \/ run_complete(p)
    \/ commitRun(p)
    \/ runStorageError(p)

SpecScore == InitScore /\ [][ScoreNext]_vars

\* ------------------------------------------ the reads and the finding edit
\* The options the model passes to getAuditLog and to getFindings (limit and
\* offset keep their defaults; the tables are shorter than a page).
AuditOptionInputs ==
  { [action |-> Null, module |-> Null],
    [action |-> Some("TOGGLE_MASTER"), module |-> Some("master")] }
FindingOptionInputs ==
  { [status |-> Null, severity |-> Null],
    [status |-> Some("non_compliant"), severity |-> Some("major")] }

\* The audit object the service builds from a row.
mapRowToAudit(row) ==
  [tenantId |-> row.tenant_id, action |-> row.action,
   changedBy |-> row.changed_by, previousState |-> row.previous_state,
   newState |-> row.new_state, moduleAffected |-> row.module_affected,
   featureAffected |-> row.feature_affected,
   previousValue |-> row.previous_value, newValue |-> row.new_value]

\* The finding object the service builds from a row.
mapRowToFinding(row) ==
  [id |-> row.id, assessmentId |-> row.assessment_id,
   controlId |-> row.control_id, tenantId |-> row.tenant_id,
   status |-> row.status, severity |-> row.severity,
   aiConfidence |-> row.ai_confidence,
   remediationRequired |-> row.remediation_required,
   remediationStatus |-> row.remediation_status,
   remediationPlan |-> row.remediation_plan,
   humanVerified |-> row.human_verified, verifiedBy |-> row.verified_by,
   verifiedAt |-> row.verified_at, updatedAt |-> row.updated_at]

\* WHERE tenant_id = $1 [AND action = $2] [AND module_affected = $3]
AuditWhere(row, tenantId, options) ==
  /\ row.tenant_id = tenantId
  /\ options.action # Null => row.action = The(options.action)
  /\ options.module # Null => row.module_affected = options.module

\* A WHERE clause that leaves the tenant out.
FindingsWhere_anyTenant(row, assessmentId, tenantId, options) ==
  /\ row.assessment_id = assessmentId
  /\ options.status # Null => row.status = The(options.status)
  /\ options.severity # Null => row.severity = options.severity

\* WHERE assessment_id = $1 AND tenant_id = $2 [AND status = $3]
\* [AND severity = $4]
FindingsWhere(row, assessmentId, tenantId, options) ==
  /\ row.assessment_id = assessmentId
  /\ row.tenant_id = tenantId
  /\ options.status # Null => row.status = The(options.status)
  /\ options.severity # Null => row.severity = options.severity

\* getAuditLog is called.
getAuditLog(p, tenantId, options) ==
  /\ Begin(p, [NoCall EXCEPT !.op = "getAuditLog", !.tenantId = tenantId,
                             !.options = options], "getAuditLog_count")
  /\ UNCHANGED << cfgTables, asmtTables >>

\* SELECT COUNT(*) FROM compliance_config_audit ..
getAuditLog_count(p) ==
  /\ pc[p] = "getAuditLog_count"
  /\ local' = [local EXCEPT ![p].total =
                 Cardinality({i \in DOMAIN audit :
                    AuditWhere(audit[i], call[p].tenantId, call[p].options)})]
  /\ pc' = [pc EXCEPT ![p] = "getAuditLog_select"]
  /\ UNCHANGED << cfgTables, asmtTables, aiEnabled, call, tx, result, started >>

\* SELECT * FROM compliance_config_audit .. : the call returns the page and
\* the total counted before.
getAuditLog_select(p) ==
  /\ pc[p] = "getAuditLog_select"
  /\ result' = [result EXCEPT ![p] =
       ReturnedPage({mapRowToAudit(audit[i]) : i \in
                       {j \in DOMAIN audit :
                          AuditWhere(audit[j], call[p].tenantId, call[p].options)}},
                    local[p].total)]
  /\ local' = [local EXCEPT ![p] = NoLocal]
  /\ pc' = [pc EXCEPT ![p] = "idle"]
  /\ UNCHANGED << cfgTables, asmtTables, aiEnabled, call, tx, started >>

\* getFindings is called.
getFindings(p, tenantId, assessmentId, options) ==
  /\ Begin(p, [NoCall EXCEPT !.op = "getFindings", !.tenantId = tenantId,
                             !.assessmentId = assessmentId,
                             !.options = options], "getFindings_count")
  /\ UNCHANGED << cfgTables, asmtTables >>

\* SELECT COUNT(*) FROM control_findings ..
getFindings_count(p) ==
  /\ pc[p] = "getFindings_count"
  /\ local' = [local EXCEPT ![p].total =
                 Cardinality({i \in DOMAIN findings :
                    FindingsWhere(findings[i], call[p].assessmentId,
                                  call[p].tenantId, call[p].options)})]
  /\ pc' = [pc EXCEPT ![p] = "getFindings_select"]
  /\ UNCHANGED << cfgTables, asmtTables, aiEnabled, call, tx, result, started >>

\* SELECT f.* .. FROM control_findings f JOIN compliance_controls c .. : the
\* call returns the page and the total counted before.
getFindings_select(p) ==
  /\ pc[p] = "getFindings_select"
  /\ result' = [result EXCEPT ![p] =
       ReturnedPage({mapRowToFinding(findings[i]) : i \in
                       {j \in DOMAIN findings :
                          /\ FindingsWhere(findings[j], call[p].assessmentId,
                                           call[p].tenantId, call[p].options)
                          /\ \E c \in Elems(compliance_controls) :
                               c.id = findings[j].control_id}},
                    local[p].total)]
  /\ local' = [local EXCEPT ![p] = NoLocal]
  /\ pc' = [pc EXCEPT ![p] = "idle"]
  /\ UNCHANGED << cfgTables, asmtTables, aiEnabled, call, tx, started >>

\* The updates the model passes to updateFinding: objects of defined values.
UpdateInputs ==
  { [status |-> "compliant"], [status |-> "not_assessed"],
    [severity |-> "major"], [remediationPlan |-> "plan"], << >> }

\* key.replace(/[A-Z]/g, (letter) => `_${letter.toLowerCase()}`), for the
\* keys of the updates.
SnakeKey ==
  [status |-> "status", severity |-> "severity",
   remediationPlan |-> "remediation_plan"]

\* SET <column> = <value> on a finding row (status is NOT NULL, the other
\* columns are nullable).
SetColumn(row, column, value) ==
  IF column = "status" THEN [row EXCEPT !.status = value]
  ELSE [row EXCEPT ![column] = Some(value)]

RECURSIVE SetColumns(_, _, _)
SetColumns(row, updates, keys) ==
  IF keys = {} THEN row
  ELSE LET key == CHOOSE k \in keys : TRUE IN
       SetColumns(SetColumn(row, SnakeKey[key], updates[key]), updates,
                  keys \ {key})

\* The SET list of updateFinding applied to a row: the given columns,
\* updated_at and, for a status other than not_assessed, the verification.
UpdatedFinding(row, updates, userId) ==
  LET set == SetColumns(row, updates, DOMAIN updates)
      touched == [set EXCEPT !.updated_at = @ + 1]
  IN IF "status" \in DOMAIN updates /\ updates.status # "not_assessed"
     THEN [touched EXCEPT !.human_verified = TRUE,
                          !.verified_by = Some(userId),
                          !.verified_at = Some("NOW")]
     ELSE touched

\* A WHERE clause that takes every finding of the finding's assessment.
UpdateTarget_wholeAssessment(table, findingId, tenantId) ==
  {i \in DOMAIN table :
     /\ table[i].tenant_id = tenantId
     /\ \E j \in DOMAIN table :
          table[j].id = findingId /\ table[j].assessment_id = table[i].assessment_id}

\* WHERE id = $n AND tenant_id = $n+1: the rows the UPDATE changes.
UpdateTarget(table, findingId, tenantId) ==
  {i \in DOMAIN table :
     table[i].id = findingId /\ table[i].tenant_id = tenantId}

\* updateFinding: one UPDATE .. WHERE id = .. AND tenant_id = .. RETURNING *.
updateFinding(p, tenantId, findingId, updates) ==
  /\ pc[p] = "idle"
  /\ started < MaxCalls
  /\ started' = started + 1
  /\ call' = [call EXCEPT ![p] = [NoCall EXCEPT !.op = "updateFinding",
                                                !.tenantId = tenantId,
                                                !.findingId = findingId,
                                                !.updates = updates]]
  /\ LET hit == UpdateTarget(findings, findingId, tenantId)
     IN IF DOMAIN updates = {}
        THEN /\ findings' = findings
             /\ result' = [result EXCEPT ![p] = Thrown("NoValidFields", "updateFinding")]
        ELSE IF hit = {}
        THEN /\ findings' = findings
             /\ result' = [result EXCEPT ![p] = Thrown("NotFound", "updateFinding")]
        ELSE /\ findings' = [i \in DOMAIN findings |->
                               IF i \in hit
                               THEN UpdatedFinding(findings[i], updates, Users[tenantId])
                               ELSE findings[i]]
             /\ result' = [result EXCEPT ![p] =
                  ReturnedPage({mapRowToFinding(findings'[i]) : i \in hit}, 0)]
  /\ UNCHANGED << cfgTables, assessments, asmtLock, aiEnabled, pc, tx, local >>

\* The finding ids the model passes: findings of both assessments and an id
\* no finding has.
FindingIdInputs ==
  { << 1, "A.5.1" >>, << 1, "A.8.1" >>, << 2, "A.5.1" >>, << 0, "none" >> }

\* ------------------------------------ both services, on top of a history
\* The calls the model issues on top of the history below.
MaxMore == 2

\* Tenant t1 has read its config and switched the master flag off, and has
\* created and run assessment 1 (with the AI assessor; one control came out
\* compliant, one non-compliant, one partial); tenant t2 has created
\* assessment 2.
InitAll ==
  \E controls \in ControlsQuery(NewAssessment(1, "t1", "iso27001", << >>, << >>)) :
    LET default == ConfigRow("t1", TRUE, JSONStringify(DEFAULT_MODULE_CONFIG), 0)
        toggled == toggleMasterWrite({default}, "t1", Users["t1"], FALSE).tx
        row == [NewAssessment(1, "t1", "iso27001", << >>, << >>) EXCEPT
                  !.status = "in_progress", !.started_at = Some("NOW")]
        loop == LoopAfter(1, "t1", controls, << 30, 80, 70 >>, Len(controls))
        after == transaction([config |-> {default}, audit |-> << >>,
                              assessments |-> {}, findings |-> << >>],
                             [toggled EXCEPT
                                !.asmtWrite = {CompletedAssessment(row, controls,
                                                                   loop.k, TRUE)},
                                !.findings = loop.findings], TRUE)
    IN /\ config = after.config
       /\ audit = after.audit
       /\ cfgLock = [t \in Tenants |-> Null]
       /\ assessments = after.assessments \cup
                        {NewAssessment(2, "t2", "iso27001", << "Organizational" >>, << >>)}
       /\ findings = after.findings
       /\ asmtLock = [a \in AssessmentIds |-> Null]
       /\ aiEnabled = TRUE
       /\ pc = [p \in Procs |-> "idle"]
       /\ call = [p \in Procs |-> NoCall]
       /\ tx = [p \in Procs |-> NoTx]
       /\ local = [p \in Procs |-> NoLocal]
       /\ result = [p \in Procs |-> NoResult]
       /\ started = MaxCalls - MaxMore
       /\ committedToggles = [t \in Tenants |-> IF t = "t1" THEN 1 ELSE 0]

AllNext ==
  \E p \in Procs :
    \/ \E t \in Tenants : getConfig(p, t)
    \/ \E t \in Tenants, m \in ModuleInputs, f \in FeatureInputs :
         isEnabled(p, t, m, f)
    \/ getConfig_select(p)
    \/ createDefaultConfig(p)
    \/ \E t \in Tenants, e \in BOOLEAN : toggleMaster(p, t, e)
    \/ \E t \in Tenants, m \in ModuleInputs, f \in FeatureInputs, e \in BOOLEAN :
         toggleModule(p, t, m, f, e)
    \/ toggleMaster_select(p)
    \/ toggleMaster_write(p)
    \/ toggleModule_select(p)
    \/ toggleModule_write(p)
    \/ commitToggle(p)
    \/ toggleStorageError(p)
    \/ \E t \in Tenants, o \in AuditOptionInputs : getAuditLog(p, t, o)
    \/ getAuditLog_count(p)
    \/ getAuditLog_select(p)
    \/ \E t \in Tenants, a \in AssessmentIds, u \in BOOLEAN :
         runAssessment(p, t, a, u)
    \/ run_wait(p)
    \/ run_select(p)
    \/ run_controls(p)
    \/ \E r \in RandomInputs : run_finding(p, r)
    \/ run_complete(p)
    \/ commitRun(p)
    \/ runStorageError(p)
    \/ \E t \in Tenants, a \in AssessmentIds, o \in FindingOptionInputs :
         getFindings(p, t, a, o)
    \/ getFindings_count(p)
    \/ getFindings_select(p)
    \/ \E t \in Tenants, f \in FindingIdInputs, u \in UpdateInputs :
         updateFinding(p, t, f, u)

\* Both services together.
SpecAll == InitAll /\ [][AllNext]_vars

\* ------------------------------------------ the config routes (toggles)
\* z.string().min(10, ..) of the two request schemas.
MinReasonLength == 10

\* The reasons the model passes.
ReasonInputs == {"too short", "long enough reason"}

\* toggleMasterSchema.parse / toggleModuleSchema.parse accept the body
\* (module and enabled are of the right type in every body the model sends).
SchemaAccepts(body) == Len(body.reason) >= MinReasonLength

\* The service is called with a request that carries a reason: BEGIN and
\* the two SET LOCAL.
ServiceCall(p, op, tenantId, request) ==
  /\ Begin(p, [NoCall EXCEPT !.op = op, !.tenantId = tenantId,
                             !.module = request.module,
                             !.enabled = request.enabled,
                             !.reason = Some(request.reason)],
           IF op = "toggleMaster" THEN "toggleMaster_select"
           ELSE "toggleModule_select")
  /\ UNCHANGED << cfgTables, asmtTables >>

\* A route handler whose body fails the schema: reply 400, the service is
\* not called.
ValidationFailed(p, op, tenantId, body, at) ==
  /\ pc[p] = "idle"
  /\ started < MaxCalls
  /\ started' = started + 1
  /\ call' = [call EXCEPT ![p] =
                [NoCall EXCEPT !.op = op, !.tenantId = tenantId,
                               !.module = body.module,
                               !.enabled = body.enabled,
                               !.reason = Some(body.reason)]]
  /\ result' = [result EXCEPT ![p] = Thrown("ValidationError", at)]
  /\ UNCHANGED << cfgTables, asmtTables, aiEnabled, pc, tx, local >>

\* PUT /config/master
putConfigMaster(p, tenantId, body) ==
  IF SchemaAccepts(body)
  THEN ServiceCall(p, "toggleMaster", tenantId, body)
  ELSE ValidationFailed(p, "toggleMaster", tenantId, body, "putConfigMaster")

\* PUT /config
putConfig(p, tenantId, body) ==
  IF SchemaAccepts(body)
  THEN ServiceCall(p, "toggleModule", tenantId, body)
  ELSE ValidationFailed(p, "toggleModule", tenantId, body, "putConfig")

\* toggleMaster(context, request) and toggleModule(context, request) called
\* by any other caller of the service.
callToggleMaster(p, tenantId, request) ==
  /\ pc[p] = "idle"
  /\ ServiceCall(p, "toggleMaster", tenantId, request)
callToggleModule(p, tenantId, request) ==
  /\ pc[p] = "idle"
  /\ ServiceCall(p, "toggleModule", tenantId, request)

\* The bodies the model sends.
BodyInputs ==
  [module : ModuleInputs, enabled : BOOLEAN, reason : ReasonInputs]

InitApi ==
  /\ config = {}
  /\ audit = << >>
  /\ cfgLock = [t \in Tenants |-> Null]
  /\ assessments = {}
  /\ findings = << >>
  /\ asmtLock = [a \in AssessmentIds |-> Null]
  /\ aiEnabled = FALSE
  /\ pc = [p \in Procs |-> "idle"]
  /\ call = [p \in Procs |-> NoCall]
  /\ tx = [p \in Procs |-> NoTx]
  /\ local = [p \in Procs |-> NoLocal]
  /\ result = [p \in Procs |-> NoResult]
  /\ started = MaxCalls - MaxMore
  /\ committedToggles = [t \in Tenants |-> 0]

ApiNext ==
  \E p \in Procs :
    \/ \E t \in Tenants, b \in BodyInputs : putConfigMaster(p, t, b)
    \/ \E t \in Tenants, b \in BodyInputs : putConfig(p, t, b)
    \/ \E t \in Tenants, b \in BodyInputs : callToggleMaster(p, t, b)
    \/ \E t \in Tenants, b \in BodyInputs : callToggleModule(p, t, b)
    \/ toggleMaster_select(p)
    \/ toggleMaster_write(p)
    \/ toggleModule_select(p)
    \/ toggleModule_write(p)
    \/ commitToggle(p)
    \/ toggleStorageError(p)

\* The toggles, through the config routes and called directly.
SpecApi == InitApi /\ [][ApiNext]_vars

\* ------------------------------------------------------------ properties
\* The audit rows of a tenant, in insertion order.
AuditOf(table, t) == SelectSeq(table, LAMBDA r : r.tenant_id = t)

\* The handler of request p returns or throws in this step.
Returns(p) == pc[p] # "idle" /\ pc'[p] = "idle"

\* The members JSONB holds for module m of a config row.
Members(row, m) == (CHOOSE e \in row.module_config : e[1] = m)[2]

\* C1: for every tenant, the number of audit rows equals the number of
\* committed toggle operations (each committed toggle adds exactly one).
C1_AuditCountEqualsToggles ==
  \A t \in Tenants : Len(AuditOf(audit, t)) = committedToggles[t]

\* C2: a toggle is atomic.  In every step: the audit rows of a tenant change
\* only together with a committed toggle that also wrote the tenant's config
\* row; the config row changes only with audit rows added (or by getConfig's
\* creation of the default row); and a call that throws changes neither.
C2_ToggleAtomic ==
  [][ /\ \A t \in Tenants :
           /\ AuditOf(audit', t) # AuditOf(audit, t) =>
                /\ SelectConfig(config', t) # SelectConfig(config, t)
                /\ committedToggles'[t] = committedToggles[t] + 1
           /\ SelectConfig(config', t) # SelectConfig(config, t) =>
                \/ /\ Len(AuditOf(audit', t)) > Len(AuditOf(audit, t))
                   /\ committedToggles'[t] = committedToggles[t] + 1
                \/ \E p \in Procs : /\ pc[p] = "createDefaultConfig"
                                    /\ Returns(p)
                                    /\ call[p].tenantId = t
      /\ \A p \in Procs :
           (Returns(p) /\ result'[p].status = "error") =>
             config' = config /\ audit' = audit
    ]_vars

\* C2 witness: a toggle on an existing config has failed at its COMMIT, after
\* staging the config update and the audit insert, next to committed ones.
C2_Witness ==
  \E p \in Procs :
    /\ call[p].op \in {"toggleMaster", "toggleModule"}
    /\ result[p] = Thrown("StorageError", "commit")
    /\ committedToggles[call[p].tenantId] = 1
    /\ Len(AuditOf(audit, call[p].tenantId)) = 1

\* The AND of the stored flags, read off the row.
AndGate(row, m, f) ==
  /\ row.master_enabled
  /\ << "enabled", TRUE >> \in Members(row, m)
  /\ f = Null \/ << The(f), TRUE >> \in Members(row, m)

\* C3: gating is AND-composed.  For every config row and every module and
\* feature the gate is master AND module.enabled AND (no feature OR the
\* stored feature value is true), checked of each row version when it is
\* committed, and every isEnabled call returns that value for the tenant's
\* row.
C3_GatingIsAnd ==
  [][ /\ \A row \in config' \ config, m \in Modules, f \in FeatureInputs :
           isEnabledOf(mapRowToConfig(row), m, f) = AndGate(row, m, f)
      /\ \A p \in Procs :
           (Returns(p) /\ call[p].op = "isEnabled" /\ result'[p].status = "ok")
           => \E row \in SelectConfig(config', call[p].tenantId) :
                result'[p].enabled =
                  Some(AndGate(row, call[p].module, call[p].feature))
    ]_vars

\* C3 witness: isEnabled has answered false for a feature that is on in a
\* module that is on, because the master switch is off.
C3_Witness ==
  \E p \in Procs :
    /\ call[p].op = "isEnabled"
    /\ call[p].feature = Some("dataErasure")
    /\ result[p].enabled = Some(FALSE)
    /\ \E row \in SelectConfig(config, call[p].tenantId) :
         /\ ~row.master_enabled
         /\ << "enabled", TRUE >> \in Members(row, call[p].module)
         /\ << "dataErasure", TRUE >> \in Members(row, call[p].module)

\* The audit row the service itself inserts is the last one of a toggle.
LastAudit(table, t) == AuditOf(table, t)[Len(AuditOf(table, t))]

\* The stored value of a flag, Null when the key is absent.
StoredFlag(row, m, key) == {e[2] : e \in {x \in Members(row, m) : x[1] = key}}

\* C8: the audit row a committed toggleModule appends holds the module map
\* before the toggle as previousState, the map after it as newState, the
\* flag's value before the toggle as previousValue and the requested value
\* as newValue.
C8_AuditRecordsBeforeAndAfter ==
  [][ \A p \in Procs :
        (Returns(p) /\ call[p].op = "toggleModule" /\ result'[p].status = "ok")
        => LET t == call[p].tenantId
               before == The(SelectConfig(config, t))
               after == The(SelectConfig(config', t))
               row == LastAudit(audit', t)
               key == IF call[p].feature = Null THEN "enabled"
                      ELSE The(call[p].feature)
           IN /\ row.previous_state.modules = Some(before.module_config)
              /\ row.new_state.modules = Some(after.module_config)
              /\ row.previous_value = StoredFlag(before, call[p].module, key)
              /\ row.new_value = Some(call[p].enabled)
    ]_vars

\* ------------------------------------------- properties of the assessments
\* The findings of an assessment, in insertion order.
FindingsOf(table, a) == SelectSeq(table, LAMBDA f : f.assessment_id = a)

\* The committed row a runAssessment call is about.
TargetOf(table, p) ==
  SelectAssessment(table, call[p].assessmentId, call[p].tenantId)

\* The statements of runAssessment after the status check.
Running == {"run_controls", "run_loop", "run_commit"}

\* Request q leaves its wait for the row lock in this step, and not by an
\* error of the storage.
LeavesWait(q) ==
  /\ pc[q] = "run_wait"
  /\ pc'[q] # "run_wait"
  /\ result'[q].error # "StorageError"

\* C4 as stated: of two concurrent runAssessment calls on one pending
\* assessment the one that had to wait for the other's row lock is rejected
\* with InvalidState.
C4_ExactlyOneProceeds ==
  [][ \A q \in Procs :
        LeavesWait(q) => /\ pc'[q] = "idle"
                         /\ result'[q].error = "InvalidState"
    ]_vars

\* C4 amended: concurrent runAssessment calls on one assessment run one at a
\* time.  The call that waited for the row lock is rejected with InvalidState
\* (changing nothing) if the first one committed, and proceeds from the
\* unchanged status if the first one failed and was rolled back; no two calls
\* are past the status check of one assessment together; and a run commits
\* only onto an assessment no run has committed before, so its findings come
\* from one run.
C4_OneRunAtATime ==
  [][ /\ \A q \in Procs :
           LeavesWait(q) =>
             IF The(TargetOf(assessments, q)).status = "completed"
             THEN /\ result'[q] = Thrown("InvalidState", "run_wait")
                  /\ pc'[q] = "idle"
                  /\ assessments' = assessments
                  /\ findings' = findings
             ELSE /\ The(TargetOf(assessments, q)).status \in {"pending", "failed"}
                  /\ pc'[q] = "run_controls"
      /\ \A p \in Procs, q \in Procs :
           (p # q /\ pc'[p] \in Running /\ pc'[q] \in Running)
           => call'[p].assessmentId # call'[q].assessmentId
      /\ \A p \in Procs :
           (pc[p] = "run_commit" /\ result'[p].status = "ok")
           => /\ The(TargetOf(assessments, p)).status # "completed"
              /\ FindingsOf(findings, call[p].assessmentId) = << >>
    ]_vars

\* C4 witness: one call has completed the assessment and the other, which
\* waited for the row lock meanwhile, was rejected with InvalidState.
C4_Witness ==
  \E p \in Procs, q \in Procs :
    /\ p # q
    /\ call[p].op = "runAssessment"
    /\ result[p].status = "ok"
    /\ call[q].op = "runAssessment"
    /\ call[q].assessmentId = call[p].assessmentId
    /\ result[q] = Thrown("InvalidState", "run_wait")

\* C5: runAssessment proceeds only from pending or failed.  The status check
\* passes exactly these two statuses; a call that finds any other status
\* throws InvalidState and changes neither the assessment nor its findings;
\* a call gets past the check only on pending or failed; and a completed
\* row is never written again.
C5_RunOnlyFromPendingOrFailed ==
  [][ /\ \A st \in AssessmentStatus : CanRun(st) <=> st \in {"pending", "failed"}
      /\ \A p \in Procs :
           ( /\ pc[p] \in {"run_select", "run_wait"}
             /\ pc'[p] \notin {"run_select", "run_wait"}
             /\ TargetOf(assessments, p) # {}
             /\ result'[p].error # "StorageError" )
           => IF The(TargetOf(assessments, p)).status \in {"pending", "failed"}
              THEN pc'[p] = "run_controls"
              ELSE /\ pc'[p] = "idle"
                   /\ result'[p].error = "InvalidState"
                   /\ assessments' = assessments
                   /\ findings' = findings
      /\ \A a \in assessments : a.status = "completed" => a \in assessments'
    ]_vars

\* C5 witness: a call on a completed assessment that has findings was
\* rejected with InvalidState.
C5_Witness ==
  \E p \in Procs :
    /\ call[p].op = "runAssessment"
    /\ result[p].error = "InvalidState"
    /\ \E a \in TargetOf(assessments, p) :
         /\ a.status = "completed"
         /\ Len(FindingsOf(findings, a.id)) > 0

\* C6 as stated: when runAssessment fails after the status check, the
\* committed status of the assessment is failed afterwards and no finding of
\* the failed run is persisted.
C6_FailureCommitsFailed ==
  [][ \A p \in Procs :
        ( /\ Returns(p)
          /\ call[p].op = "runAssessment"
          /\ pc[p] \in Running
          /\ result'[p].status = "error" )
        => /\ \A a \in TargetOf(assessments', p) : a.status = "failed"
           /\ FindingsOf(findings', call[p].assessmentId)
                = FindingsOf(findings, call[p].assessmentId)
    ]_vars

\* The ids of the controls a sequence of findings is about.
ControlIdsOf(F) == {F[i].control_id : i \in DOMAIN F}

\* C7: a run is atomic towards readers.  Every committed state shows an
\* assessment either in its prior state (pending, no score, no finding) or
\* completed with its score, risk level, counters and completion time set
\* and a finding for every control of its control set: never a part of the
\* findings, and never findings on an assessment that is not completed.
C7_RunAtomicToReaders ==
  \A a \in assessments :
    LET F == FindingsOf(findings, a.id) IN
    IF a.status = "completed"
    THEN /\ a.overall_score # Null
         /\ a.risk_level # Null
         /\ a.completed_at # Null
         /\ a.total_controls_assessed = Len(F)
         /\ ControlIdsOf(F) = {c.id : c \in ControlsWhere(a)}
    ELSE /\ a.status = "pending"
         /\ a.overall_score = Null
         /\ a.risk_level = Null
         /\ F = << >>

\* C7 witness: a run is inside its loop with findings inserted and more to
\* come, while the committed tables show the assessment pending and without
\* findings.
C7_Witness ==
  \E p \in Procs :
    /\ pc[p] = "run_loop"
    /\ Len(tx[p].findings) >= 1
    /\ ~LoopDone(local[p].i, local[p].controls)
    /\ \E a \in TargetOf(assessments, p) : a.status = "pending"
    /\ FindingsOf(findings, call[p].assessmentId) = << >>

\* The number of findings of F about control c.
FindingsAbout(F, c) == Cardinality({i \in DOMAIN F : F[i].control_id = c.id})

\* C9: a completed assessment has exactly one finding for every control of
\* its control set (the controls of the framework, within the scope, not
\* excluded) and none for any other control, also when the run that
\* completed it came after a failed one; so has every run that reaches its
\* COMMIT.
C9_OneFindingPerControl ==
  /\ \A a \in assessments :
       a.status = "completed" =>
         \A c \in Elems(compliance_controls) :
           FindingsAbout(FindingsOf(findings, a.id), c)
             = IF c \in ControlsWhere(a) THEN 1 ELSE 0
  /\ \A p \in Procs :
       pc[p] = "run_commit" =>
         \A c \in Elems(compliance_controls) :
           FindingsAbout(tx[p].findings, c)
             = IF c \in ControlsWhere(The(local[p].assessment)) THEN 1 ELSE 0

\* C9 witness: an assessment of three controls was completed by a run that
\* followed a run of the other request which failed inside the loop.
C9_Witness ==
  \E p \in Procs, q \in Procs :
    /\ p # q
    /\ call[p].op = "runAssessment"
    /\ result[p] = Thrown("StorageError", "run_loop")
    /\ call[q].op = "runAssessment"
    /\ call[q].assessmentId = call[p].assessmentId
    /\ call[q].tenantId = call[p].tenantId
    /\ result[q].status = "ok"
    /\ Len(FindingsOf(findings, call[q].assessmentId)) = 3

\* The findings of a run without AI: not_assessed, with confidence conf(useAI).
NoAiFindings(conf(_)) ==
  /\ \A p \in Procs :
       (pc[p] \in Running /\ (~call[p].useAI \/ ~aiEnabled)) =>
         \A i \in DOMAIN tx[p].findings :
           /\ tx[p].findings[i].status = "not_assessed"
           /\ tx[p].findings[i].ai_confidence = conf(call[p].useAI)
  /\ \A a \in assessments :
       (a.status = "completed" /\ (a.ai_model_used = Null \/ ~aiEnabled)) =>
         LET F == FindingsOf(findings, a.id) IN
         /\ ControlIdsOf(F) = {c.id : c \in ControlsWhere(a)}
         /\ \A i \in DOMAIN F :
              /\ F[i].status = "not_assessed"
              /\ F[i].ai_confidence = conf(a.ai_model_used # Null)

\* C10 as stated: a run with useAI = false, or with the AI assessor not
\* available, gives every control a finding of status not_assessed whose
\* recorded confidence is zero.
C10_NoAiZeroConfidence == NoAiFindings(LAMBDA useAI : Some(0))

\* C10 amended: a run with useAI = false, or with the AI assessor not
\* available, gives every control a finding of status not_assessed; the
\* recorded confidence is zero when AI was asked for but is not available,
\* and absent (NULL) when useAI = false.
C10_NoAiNotAssessed ==
  NoAiFindings(LAMBDA useAI : IF useAI THEN Some(0) ELSE Null)

\* C10 witness: a run with useAI = false has completed an assessment, and
\* its findings are not_assessed without a confidence.
C10_Witness ==
  \E a \in assessments :
    /\ a.status = "completed"
    /\ a.ai_model_used = Null
    /\ Len(FindingsOf(findings, a.id)) >= 2
    /\ \A i \in DOMAIN FindingsOf(findings, a.id) :
         /\ FindingsOf(findings, a.id)[i].status = "not_assessed"
         /\ FindingsOf(findings, a.id)[i].ai_confidence = Null

\* --------------------------------------------------- properties of the score
\* The nearest integer to num / den, halves up, in exact arithmetic.
RoundHalfUp(num, den) == (2 * num + den) \div (2 * den)

\* C11 as stated: the score a completed run stores is
\* round(100*compliant/totalAssessed + 50*partial/totalAssessed) when
\* totalAssessed = compliant + nonCompliant + partial > 0 and 0 otherwise,
\* and lies in 0..100.
C11_ScoreFormula ==
  \A a \in assessments :
    a.status = "completed" =>
      LET totalAssessed == a.compliant_controls + a.non_compliant_controls
                           + a.partial_controls
      IN /\ a.overall_score =
              Some(IF totalAssessed > 0
                   THEN RoundHalfUp(100 * a.compliant_controls
                                    + 50 * a.partial_controls, totalAssessed)
                   ELSE 0)
         /\ The(a.overall_score) \in 0..100

\* C12 as stated: the total-assessed counter stored on a completed
\* assessment is compliant + nonCompliant + partial.
C12_TotalAssessedIsScored ==
  \A a \in assessments :
    a.status = "completed" =>
      a.total_controls_assessed =
        a.compliant_controls + a.non_compliant_controls + a.partial_controls

\* C13: the risk level stored on a completed assessment is the threshold
\* function of its stored score: low from 90, medium from 70 to 89, high
\* from 50 to 69, critical below 50.
C13_RiskLevelOfScore ==
  \A a \in assessments :
    a.status = "completed" =>
      LET score == The(a.overall_score) IN
      /\ score >= 90 => a.risk_level = Some("low")
      /\ (70 <= score /\ score < 90) => a.risk_level = Some("medium")
      /\ (50 <= score /\ score < 70) => a.risk_level = Some("high")
      /\ score < 50 => a.risk_level = Some("critical")

\* C13 witness: a completed assessment with 2 compliant and 1 non-compliant
\* control has score 67 and risk level high.
C13_Witness ==
  \E a \in assessments :
    /\ a.status = "completed"
    /\ a.compliant_controls = 2
    /\ a.non_compliant_controls = 1
    /\ a.partial_controls = 0
    /\ a.overall_score = Some(67)
    /\ a.risk_level = Some("high")

\* C14: score monotonicity.  For the counters of every run that has computed
\* its score: with the number of scored controls and the partial count
\* fixed, one non-compliant finding turned compliant gives a score that is
\* not lower.
C14_ScoreMonotone ==
  \A p \in Procs :
    (pc[p] = "run_commit" /\ local[p].k.nonCompliant >= 1) =>
      OverallScore(local[p].k.compliant + 1, local[p].k.nonCompliant - 1,
                   local[p].k.partial)
        >= The(The(tx[p].asmtWrite).overall_score)

\* C14 witness: a run of 12 scored controls with 1 compliant, 10
\* non-compliant and 1 partial has computed its score.
C14_Witness ==
  \E p \in Procs :
    /\ pc[p] = "run_commit"
    /\ local[p].k.compliant = 1
    /\ local[p].k.nonCompliant = 10
    /\ local[p].k.partial = 1
    /\ The(tx[p].asmtWrite).overall_score # Null

\* ------------------------------------------ more properties of the toggles
\* The key of the flag a toggleModule call writes.
FlagOf(c) == IF c.feature = Null THEN "enabled" ELSE The(c.feature)

\* The toggle before the call of request p on its tenant was a toggleModule
\* with the same module, feature and value: the trail of the tenant ends
\* with the row the service wrote for it.
RepeatsLastToggle(p) ==
  LET trail == AuditOf(audit, call[p].tenantId) IN
  /\ Len(trail) >= 1
  /\ trail[Len(trail)].action \in {"TOGGLE_MODULE", "TOGGLE_FEATURE"}
  /\ trail[Len(trail)].module_affected = Some(call[p].module)
  /\ trail[Len(trail)].feature_affected = Some(FlagOf(call[p]))
  /\ trail[Len(trail)].new_value = Some(call[p].enabled)

\* isEnabled gives the same answers on both rows.
SameGates(row1, row2) ==
  \A m \in Modules, f \in FeatureInputs :
    isEnabledOf(mapRowToConfig(row1), m, f)
      = isEnabledOf(mapRowToConfig(row2), m, f)

\* C15 as stated: when toggleModule is called twice in a row with the same
\* module, feature and value, the two calls append two audit rows in total,
\* one each (the second call adds one row, and the row of the first call is
\* not preceded by a second row of that call), and isEnabled answers the
\* same for every module and feature after the second call as after the
\* first.
C15_IdempotentGating ==
  [][ \A p \in Procs :
        ( /\ Returns(p)
          /\ call[p].op = "toggleModule"
          /\ result'[p].status = "ok"
          /\ RepeatsLastToggle(p) )
        => LET t == call[p].tenantId
               trail == AuditOf(audit, t)
           IN /\ Len(AuditOf(audit', t)) = Len(trail) + 1
              /\ Len(trail) >= 2 => trail[Len(trail) - 1].module_affected # Null
              /\ SameGates(The(SelectConfig(config, t)),
                           The(SelectConfig(config', t)))
    ]_vars

\* C16: toggleMaster on an existing config changes the master flag only.
\* The row getConfig creates has gdpr and its dataErasure on, under a master
\* that is on; a committed toggleMaster on an existing row leaves the module
\* map as it was and stores the requested master flag; with the flag off
\* isEnabled is false for every module and feature, with the flag on it
\* gives for every module and feature what the unchanged module map gives
\* under a master that is on (the values before the freeze).
C16_MasterFrame ==
  [][ \A p \in Procs :
        /\ ( /\ Returns(p) /\ pc[p] = "createDefaultConfig"
             /\ result'[p].status = "ok" )
           => \E row \in SelectConfig(config', call[p].tenantId) :
                isEnabledOf(mapRowToConfig(row), "gdpr", Some("dataErasure"))
        /\ ( /\ Returns(p) /\ call[p].op = "toggleMaster"
             /\ result'[p].status = "ok"
             /\ SelectConfig(config, call[p].tenantId) # {} )
           => LET before == The(SelectConfig(config, call[p].tenantId))
                  after == The(SelectConfig(config', call[p].tenantId))
              IN /\ after.module_config = before.module_config
                 /\ after.master_enabled = call[p].enabled
                 /\ \A m \in Modules, f \in FeatureInputs :
                      isEnabledOf(mapRowToConfig(after), m, f)
                        = IF call[p].enabled
                          THEN isEnabledOf(
                                 mapRowToConfig([before EXCEPT
                                                   !.master_enabled = TRUE]),
                                 m, f)
                          ELSE FALSE
    ]_vars

\* C16 witness: on a config that getConfig had created the master was
\* switched off by one request and on again by the other; gdpr and
\* dataErasure are on as before.
C16_Witness ==
  \E p \in Procs, q \in Procs :
    /\ p # q
    /\ call[q].op = "toggleMaster" /\ ~call[q].enabled
    /\ result[q].status = "ok"
    /\ call[p].op = "toggleMaster" /\ call[p].enabled
    /\ result[p].status = "ok"
    /\ call[p].tenantId = call[q].tenantId
    /\ committedToggles[call[p].tenantId] = 2
    /\ Len(AuditOf(audit, call[p].tenantId)) = 4
    /\ \E row \in SelectConfig(config, call[p].tenantId) :
         /\ row.master_enabled
         /\ isEnabledOf(mapRowToConfig(row), "gdpr", Some("dataErasure"))

\* The statements of a toggle after its SELECT .. FOR UPDATE.
Toggling == {"toggleMaster_write", "toggleModule_write", "commit"}

\* Row `after` is row `before` with the toggle of call c applied: the master
\* flag or the one flag of the module map set, everything else as it was.
Applied(c, before, after) ==
  IF c.op = "toggleMaster"
  THEN /\ after.master_enabled = c.enabled
       /\ after.module_config = before.module_config
  ELSE /\ after.master_enabled = before.master_enabled
       /\ \A m \in Modules :
            Members(after, m) =
              IF m = c.module
              THEN {e \in Members(before, m) : e[1] # FlagOf(c)}
                   \cup {<< FlagOf(c), c.enabled >>}
              ELSE Members(before, m)

\* C17: toggles on an existing config are serialised by the row lock.  No
\* two toggles of one tenant are past their SELECT .. FOR UPDATE together;
\* a toggle commits onto the very row version it read, and the committed
\* row is that version with the toggle applied: the committed config is the
\* result of the toggles one after the other, none lost.
C17_TogglesSerialised ==
  [][ /\ \A p \in Procs, q \in Procs :
           ( /\ p # q
             /\ pc'[p] \in Toggling /\ tx'[p].prev # {}
             /\ pc'[q] \in Toggling /\ tx'[q].prev # {} )
           => call'[p].tenantId # call'[q].tenantId
      /\ \A p \in Procs :
           (pc[p] = "commit" /\ result'[p].status = "ok" /\ tx[p].prev # {})
           => /\ tx[p].prev = SelectConfig(config, call[p].tenantId)
              /\ Applied(call[p], The(tx[p].prev),
                         The(SelectConfig(config', call[p].tenantId)))
    ]_vars

\* C17 witness: a toggleMaster and a toggleModule on the same existing
\* config are in flight together: one has staged its write and holds the
\* row lock, the other stands before its SELECT .. FOR UPDATE.
C17_Witness ==
  \E p \in Procs, q \in Procs :
    /\ p # q
    /\ call[p].tenantId = call[q].tenantId
    /\ pc[p] = "commit" /\ tx[p].prev # {}
    /\ call[p].op = "toggleMaster"
    /\ pc[q] = "toggleModule_select"
    /\ cfgLock[call[p].tenantId] = {p}

\* C18 as stated: getConfig, isEnabled and toggleMaster on a tenant without
\* a config row create it atomically: whatever the interleaving, none of
\* these calls fails (but for an error of the storage itself), and when it
\* returns the tenant has exactly one config row.
C18_AtomicCreate ==
  [][ \A p \in Procs :
        ( /\ Returns(p)
          /\ call[p].op \in {"getConfig", "isEnabled", "toggleMaster"}
          /\ result'[p].error # "StorageError" )
        => /\ result'[p].status = "ok"
           /\ Cardinality(SelectConfig(config', call[p].tenantId)) = 1
    ]_vars

\* C19: toggleModule on a tenant without a config row fails with NotFound
\* and creates neither a config row nor an audit row; a config row comes
\* into being only through getConfig (also when isEnabled calls it) and
\* toggleMaster.
C19_ToggleModuleNotFound ==
  [][ /\ \A p \in Procs :
           ( /\ pc[p] = "toggleModule_select"
             /\ pc'[p] # pc[p]
             /\ SelectConfig(config, call[p].tenantId) = {}
             /\ result'[p].error # "StorageError" )
           => /\ pc'[p] = "idle"
              /\ result'[p].error = "NotFound"
              /\ config' = config
              /\ audit' = audit
      /\ \A t \in Tenants :
           (SelectConfig(config, t) = {} /\ SelectConfig(config', t) # {})
           => \E p \in Procs :
                /\ Returns(p)
                /\ call[p].tenantId = t
                /\ call[p].op \in {"getConfig", "isEnabled", "toggleMaster"}
    ]_vars

\* C19 witness: toggleModule has failed with NotFound on a tenant that has
\* no config row and no audit row, while the other tenant has a config.
C19_Witness ==
  \E p \in Procs :
    /\ call[p].op = "toggleModule"
    /\ result[p].error = "NotFound"
    /\ SelectConfig(config, call[p].tenantId) = {}
    /\ AuditOf(audit, call[p].tenantId) = << >>
    /\ config # {}

\* C20 as stated: the key set of the module map is closed.  Every committed
\* row version holds for each module exactly the keys the module is defined
\* with (enabled and its features), and a toggleModule whose feature is not
\* one of the module's defined flags fails with InvalidFeature and changes
\* neither config nor audit.
C20_ClosedKeySet ==
  [][ /\ \A row \in config' \ config, m \in Modules :
           {e[1] : e \in Members(row, m)} = DOMAIN DEFAULT_MODULE_CONFIG[m]
      /\ \A p \in Procs :
           ( /\ pc[p] = "toggleModule_write"
             /\ pc'[p] # pc[p]
             /\ call[p].feature # Null
             /\ The(call[p].feature) \notin DOMAIN DEFAULT_MODULE_CONFIG[call[p].module]
             /\ result'[p].error # "StorageError" )
           => /\ pc'[p] = "idle"
              /\ result'[p].error = "InvalidFeature"
              /\ config' = config
              /\ audit' = audit
    ]_vars

\* C21 as stated: the gate check is read-only.  No step of a call
\* isEnabled(tenantId, module, feature), whether or not the tenant has a
\* config row, changes the config table or the audit table.
C21_IsEnabledReadOnly ==
  [][ \A p \in Procs :
        (pc'[p] # pc[p] /\ call'[p].op = "isEnabled")
        => /\ config' = config
           /\ audit' = audit
    ]_vars

\* The request that takes the step.
Acts(p) == pc'[p] # pc[p] \/ call'[p] # call[p] \/ result'[p] # result[p]

\* The rows of tenant t in the four tables.
RowsOf(cfg, aud, asmts, fnds, t) ==
  [config |-> {r \in cfg : r.tenant_id = t},
   audit |-> AuditOf(aud, t),
   assessments |-> {a \in asmts : a.tenant_id = t},
   findings |-> SelectSeq(fnds, LAMBDA f : f.tenant_id = t)]

\* What request p holds as the answer of its call is of tenant t: the
\* config, the assessment, the rows of the page, and the gate answer (the
\* gate of t's own row).
AnswerIsOf(res, c, cfg, t) ==
  /\ \A x \in res.config : x.tenantId = t
  /\ \A x \in res.assessment : x.tenant_id = t
  /\ \A x \in res.data : x.tenantId = t
  /\ res.enabled # Null =>
       /\ SelectConfig(cfg, t) # {}
       /\ res.enabled = Some(isEnabledOf(mapRowToConfig(The(SelectConfig(cfg, t))),
                                         c.module, c.feature))

\* A toggle of request p stands at its SELECT .. FOR UPDATE, and no other
\* transaction holds the lock of its own tenant's row.
OwnRowFree(p) ==
  /\ pc[p] \in {"toggleMaster_select", "toggleModule_select"}
  /\ cfgLock[call[p].tenantId] \subseteq {p}

\* C22: tenant isolation.  A step of a call made with tenant id A changes no
\* config, audit, assessment or finding row of another tenant B and answers
\* with rows of A only, and a toggle for A whose own row is not locked by
\* another transaction can take its SELECT .. FOR UPDATE whatever the locks
\* on other tenants' rows are.
C22_TenantIsolation ==
  /\ [](\A p \in Procs :
          OwnRowFree(p) =>
            ENABLED (toggleMaster_select(p) \/ toggleModule_select(p)))
  /\ [][ \A p \in Procs :
           Acts(p) =>
             /\ \A B \in Tenants \ {call'[p].tenantId} :
                  RowsOf(config', audit', assessments', findings', B)
                    = RowsOf(config, audit, assessments, findings, B)
             /\ AnswerIsOf(result'[p], call'[p], config', call'[p].tenantId)
       ]_vars

\* Tenant t2 has asked for the findings of t1's assessment 1, which has
\* findings, and got an empty page; meanwhile a toggle of t1 holds the lock
\* of t1's row.
C22_Witness ==
  \E p \in Procs :
    /\ call[p].op = "getFindings"
    /\ call[p].tenantId = "t2"
    /\ call[p].assessmentId = 1
    /\ FindingsOf(findings, 1) # << >>
    /\ result[p].status = "ok"
    /\ result[p].data = {}
    /\ result[p].total = 0
    /\ cfgLock["t1"] # Null

\* Sequence a is the beginning of sequence b.
IsPrefix(a, b) == Len(a) <= Len(b) /\ SubSeq(b, 1, Len(a)) = a

\* C23: audit history is append-only.  Every step leaves each tenant's audit
\* rows as they were, in their order, at the head of the tenant's audit log
\* (so every later state holds every row of every earlier state), and leaves
\* a config row for every tenant that had one.
C23_AuditAppendOnly ==
  [][ /\ \A t \in Tenants : IsPrefix(AuditOf(audit, t), AuditOf(audit', t))
      /\ IsPrefix(audit, audit')
      /\ \A r \in config : SelectConfig(config', r.tenant_id) # {}
    ]_vars

\* Tenant t1's log has grown by a second committed toggle, and t2 has got a
\* config row of its own.
C23_Witness ==
  /\ committedToggles["t1"] >= 2
  /\ Len(AuditOf(audit, "t1")) >= 4
  /\ SelectConfig(config, "t1") # {}
  /\ SelectConfig(config, "t2") # {}

C25_CreateAssessment ==
  [][ \A p \in Procs :
        (Acts(p) /\ call'[p].op = "createAssessment")
        => LET c == call'[p]
               known == \E f \in compliance_frameworks :
                          f.id = c.frameworkId /\ f.is_active
           IN /\ findings' = findings
              /\ ~known => /\ result'[p].error = "NotFound"
                           /\ assessments' = assessments
              /\ known => /\ result'[p].status = "ok"
                          /\ Cardinality(assessments' \ assessments) = 1
                          /\ assessments \subseteq assessments'
                          /\ result'[p].assessment = assessments' \ assessments
                          /\ \A a \in assessments' \ assessments :
                               /\ a.status = "pending"
                               /\ a.tenant_id = c.tenantId
                               /\ a.framework_id = c.frameworkId
                               /\ a.scope = c.scope
                               /\ a.excluded_controls = c.excludedControls
                               /\ FindingsOf(findings', a.id) = << >>
    ]_vars

\* One request was refused for a framework that does not exist; another
\* created an assessment with a scope and an exclusion, which is pending and
\* has no finding.
C25_Witness ==
  /\ \E p \in Procs :
       /\ call[p].op = "createAssessment"
       /\ call[p].frameworkId = "unknown"
       /\ result[p].error = "NotFound"
  /\ \E p \in Procs :
       /\ call[p].op = "createAssessment"
       /\ call[p].frameworkId = "iso27001"
       /\ result[p].status = "ok"
       /\ \E a \in result[p].assessment :
            /\ a \in assessments
            /\ a.status = "pending"
            /\ a.scope # << >>
            /\ a.excluded_controls # << >>
            /\ FindingsOf(findings, a.id) = << >>

\* C26 as stated: every successful updateFinding that overrides a finding's
\* status, severity or remediation fields leaves the finding with
\* human_verified true, the acting user as verifier and a verification time.
C26_EditVerifies ==
  [][ \A p \in Procs :
        ( /\ Acts(p)
          /\ call'[p].op = "updateFinding"
          /\ result'[p].status = "ok"
          /\ DOMAIN call'[p].updates \cap
               {"status", "severity", "remediationPlan"} # {} )
        => \A i \in DOMAIN findings' :
             findings'[i].id = call'[p].findingId
             => /\ findings'[i].human_verified
                /\ findings'[i].verified_by = Some(Users[call'[p].tenantId])
                /\ findings'[i].verified_at # Null
    ]_vars

\* The number of findings of a table with the given status.
StatusCount(F, st) == Cardinality({i \in DOMAIN F : F[i].status = st})

\* C27: a finding edit never re-triggers scoring.  A step of updateFinding
\* leaves the assessment table as it is (status, score, risk level and
\* counters of every assessment), and changes no finding row other than
\* the one with the given id; it adds and removes no finding.
C27_EditDoesNotRescore ==
  [][ \A p \in Procs :
        (Acts(p) /\ call'[p].op = "updateFinding")
        => /\ assessments' = assessments
           /\ DOMAIN findings' = DOMAIN findings
           /\ \A i \in DOMAIN findings :
                findings[i].id # call'[p].findingId => findings'[i] = findings[i]
           /\ config' = config
           /\ audit' = audit
    ]_vars

\* A finding of the completed assessment 1 was edited to compliant; the
\* assessment still carries the counter of the run, which no longer equals
\* the number of its compliant findings.
C27_Witness ==
  \E p \in Procs, a \in assessments :
    /\ call[p].op = "updateFinding"
    /\ call[p].updates = [status |-> "compliant"]
    /\ result[p].status = "ok"
    /\ a.id = 1
    /\ a.status = "completed"
    /\ \E i \in DOMAIN findings :
         /\ findings[i].id = call[p].findingId
         /\ findings[i].assessment_id = a.id
         /\ findings[i].updated_at > 0
    /\ a.compliant_controls = 1
    /\ StatusCount(FindingsOf(findings, a.id), "compliant") = 2

\* The controls the catalog holds for an assessment: of its framework, of a
\* domain in its scope unless the scope is empty, and not excluded.
Applicable(a) ==
  { c \in Elems(compliance_controls) :
      /\ c.framework_id = a.framework_id
      /\ a.scope = << >> \/ c.domain \in Elems(a.scope)
      /\ c.id \notin Elems(a.excluded_controls) }

\* C28: the set of controls a run evaluates is exactly the set of applicable
\* catalog controls.  Once a run has its controls, they are the applicable
\* ones, each once; the findings it has inserted are about the first of
\* them, and at the end of the loop about all of them.
C28_ControlSet ==
  \A p \in Procs :
    pc[p] \in {"run_loop", "run_commit"}
    => LET a == The(local[p].assessment)
           controls == local[p].controls
       IN /\ Elems(controls) = Applicable(a)
          /\ Len(controls) = Cardinality(Applicable(a))
          /\ ControlIdsOf(tx[p].findings)
               = {controls[i].id : i \in 1..(local[p].i - 1)}
          /\ pc[p] = "run_commit" =>
               ControlIdsOf(tx[p].findings) = {c.id : c \in Applicable(a)}

\* A run of an assessment with a scope and an exclusion has reached its
\* commit with the one control that is in scope and not excluded, while the
\* catalog holds other controls of the framework.
C28_Witness ==
  \E p \in Procs :
    /\ pc[p] = "run_commit"
    /\ The(local[p].assessment).scope = << "Organizational" >>
    /\ The(local[p].assessment).excluded_controls = << "A.5.37" >>
    /\ ControlIdsOf(tx[p].findings) = {"A.5.1"}
    /\ \E c \in Elems(compliance_controls) :
         c.framework_id = "iso27001" /\ c.id \notin ControlIdsOf(tx[p].findings)

\* The place of a control in the catalog.
CatalogIndex(c) == CHOOSE i \in DOMAIN compliance_controls : compliance_controls[i] = c

\* C29 as stated: the evaluation order of a run is deterministic.  The
\* controls of a run come in descending implementation_priority, and
\* controls of equal priority in catalog order; the findings are inserted
\* in that order.
C29_DeterministicOrder ==
  \A p \in Procs :
    pc[p] \in {"run_loop", "run_commit"}
    => LET controls == local[p].controls IN
       /\ \A i, j \in DOMAIN controls :
            i < j =>
              \/ controls[i].implementation_priority
                   > controls[j].implementation_priority
              \/ /\ controls[i].implementation_priority
                      = controls[j].implementation_priority
                 /\ CatalogIndex(controls[i]) < CatalogIndex(controls[j])
       /\ \A i \in DOMAIN tx[p].findings :
            tx[p].findings[i].control_id = controls[i].id

\* The number of findings of a table with the given severity.
SeverityCount(F, sev) == Cardinality({i \in DOMAIN F : F[i].severity = Some(sev)})

\* No finding of the table has been edited by updateFinding.
Unedited(F) == \A i \in DOMAIN F : F[i].updated_at = 0

\* C30: the aggregates of a committed run agree with its findings.  For
\* every completed assessment none of whose findings has been edited, each
\* status counter equals the number of its findings with that status and
\* each severity counter the number of its findings with that severity.
C30_AggregatesAgree ==
  \A a \in assessments :
    LET F == FindingsOf(findings, a.id) IN
    (a.status = "completed" /\ Unedited(F))
    => /\ a.compliant_controls = StatusCount(F, "compliant")
       /\ a.non_compliant_controls = StatusCount(F, "non_compliant")
       /\ a.partial_controls = StatusCount(F, "partial")
       /\ a.not_applicable_controls = StatusCount(F, "not_applicable")
       /\ a.critical_findings = SeverityCount(F, "critical")
       /\ a.major_findings = SeverityCount(F, "major")
       /\ a.minor_findings = SeverityCount(F, "minor")
       /\ a.observations = SeverityCount(F, "observation")

\* The run of assessment 2 has committed with one major and one minor
\* finding, none of them edited since, while a finding of assessment 1 has
\* been edited.
C30_Witness ==
  \E a \in assessments :
    /\ a.id = 2
    /\ a.status = "completed"
    /\ Len(FindingsOf(findings, 2)) = 2
    /\ Unedited(FindingsOf(findings, 2))
    /\ a.major_findings = 1
    /\ a.minor_findings = 1
    /\ ~Unedited(FindingsOf(findings, 1))

====
